---------------------------- MODULE Spec2Model ----------------------------
(***************************************************************************)
(* Model of the c64-3d software rasterizer (src/c/rasterize.c, mesh.c):    *)
(* the packed 2-bit pixel buffer, the span blitters, the triangle          *)
(* scan-converter and the mesh transform that feeds it.                    *)
(*                                                                         *)
(* C integers: `int' values stay far inside 32 bits for every input drawn  *)
(* below, so + - * are exact; x >> n on a negative int is the arithmetic   *)
(* shift (floor division), x << n is multiplication by 2^n, / truncates    *)
(* toward zero, and a store into int16_t / unsigned char keeps the low     *)
(* 16 / 8 bits.                                                            *)
(***************************************************************************)
EXTENDS Integers, Sequences, FiniteSets, TLC

VARIABLES
    buf,    \* the screen buffer: SCREEN_SIZE bytes
    pre,    \* the buffer as it was when the last operation was called
    call,   \* the last operation and its arguments
    ret,    \* the value the last operation returned (get_pixel), else 0
    ub,     \* TRUE once an access fell outside the buffer or a table
    steps,  \* draw_triangle: the blitter calls it made, with the loop state at each
    log     \* render_mesh: the draw_triangle calls it made, in order

vars == <<buf, pre, call, ret, ub, steps, log>>

---------------------------------------------------------------------------
(* rasterize.h *)
SCREEN_WIDTH == 80
SCREEN_HEIGHT == 50
CHAR_WIDTH == 40
CHAR_HEIGHT == 25
SCREEN_SIZE == 1000
FP_SHIFT == 8
PIXEL_TL_SHIFT == 6
PIXEL_TR_SHIFT == 4
PIXEL_BL_SHIFT == 2
PIXEL_BR_SHIFT == 0

---------------------------------------------------------------------------
(* C operators on int *)
Pow2(n) == 2 ^ n

Shl(a, n) == a * Pow2(n)

\* arithmetic shift right: floors, also for negative a
Shr(a, n) == a \div Pow2(n)

\* C division: truncates toward zero (b # 0)
CDiv(a, b) ==
    LET q == (IF a < 0 THEN -a ELSE a) \div (IF b < 0 THEN -b ELSE b)
    IN  IF (a < 0) = (b < 0) THEN q ELSE -q

\* bit by bit over the low n bits of the two's complement ints
RECURSIVE AndBits(_, _, _)
AndBits(a, b, n) ==
    IF n = 0 \/ a = 0 \/ b = 0 THEN 0
    ELSE (a % 2) * (b % 2) + 2 * AndBits(a \div 2, b \div 2, n - 1)

RECURSIVE OrBits(_, _, _)
OrBits(a, b, n) ==
    IF n = 0 \/ (a = 0 /\ b = 0) THEN 0
    ELSE (IF a % 2 = 1 \/ b % 2 = 1 THEN 1 ELSE 0)
         + 2 * OrBits(a \div 2, b \div 2, n - 1)

\* a & b, a | b, ~a as far as a byte store sees them (the low 8 bits)
BitAnd(a, b) == AndBits(a, b, 8)
BitOr(a, b) == OrBits(a, b, 8)
BitNot(a) == -1 - a

\* the value an unsigned char holds after an int is stored into it
ToByte(a) == a % 256

PIXEL_TL_MASK == Shl(3, PIXEL_TL_SHIFT)
PIXEL_TR_MASK == Shl(3, PIXEL_TR_SHIFT)
PIXEL_BL_MASK == Shl(3, PIXEL_BL_SHIFT)
PIXEL_BR_MASK == Shl(3, PIXEL_BR_SHIFT)

---------------------------------------------------------------------------
(* init_tables: the lookup tables, the same after every call *)
top_row_mask ==
    [i \in 0..3 |-> CASE i = 0 -> 0
                      [] i = 1 -> PIXEL_TR_MASK
                      [] i = 2 -> PIXEL_TL_MASK
                      [] i = 3 -> BitOr(PIXEL_TL_MASK, PIXEL_TR_MASK)]

bottom_row_mask ==
    [i \in 0..3 |-> CASE i = 0 -> 0
                      [] i = 1 -> PIXEL_BR_MASK
                      [] i = 2 -> PIXEL_BL_MASK
                      [] i = 3 -> BitOr(PIXEL_BL_MASK, PIXEL_BR_MASK)]

row_offset == [y \in 0..(CHAR_HEIGHT - 1) |-> y * CHAR_WIDTH]

---------------------------------------------------------------------------
(* PixelBuffer *)
Bytes == 0..(SCREEN_SIZE - 1)

\* clear_screen with the bottom-right field left out of the fill byte
clear_screen_no_br(color) ==
    LET byte == ToByte(BitOr(BitOr(Shl(color, PIXEL_TL_SHIFT),
                                   Shl(color, PIXEL_TR_SHIFT)),
                             Shl(color, PIXEL_BL_SHIFT)))
    IN  [i \in Bytes |-> byte]

clear_screen(color) ==
    LET byte == ToByte(BitOr(BitOr(Shl(color, PIXEL_TL_SHIFT),
                                   Shl(color, PIXEL_TR_SHIFT)),
                             BitOr(Shl(color, PIXEL_BL_SHIFT),
                                   Shl(color, PIXEL_BR_SHIFT))))
    IN  [i \in Bytes |-> byte]

OutOfBounds(x, y) ==
    x < 0 \/ x >= SCREEN_WIDTH \/ y < 0 \/ y >= SCREEN_HEIGHT

\* StorePixel that ORs the color in without clearing the field first
StorePixel_no_clear(b, x, y, color) ==
    LET offset == row_offset[Shr(y, 1)] + Shr(x, 1)
        shift  == IF y % 2 = 0
                  THEN (IF x % 2 # 0 THEN PIXEL_TR_SHIFT ELSE PIXEL_TL_SHIFT)
                  ELSE (IF x % 2 # 0 THEN PIXEL_BR_SHIFT ELSE PIXEL_BL_SHIFT)
    IN  [b EXCEPT ![offset] = ToByte(BitOr(b[offset], Shl(color, shift)))]

\* StorePixel with the top-right and bottom-left fields exchanged
StorePixel_swapped(b, x, y, color) ==
    LET offset == row_offset[Shr(y, 1)] + Shr(x, 1)
        shift  == IF y % 2 = 0
                  THEN (IF x % 2 # 0 THEN PIXEL_BL_SHIFT ELSE PIXEL_TL_SHIFT)
                  ELSE (IF x % 2 # 0 THEN PIXEL_BR_SHIFT ELSE PIXEL_TR_SHIFT)
        mask   == Shl(3, shift)
    IN  [b EXCEPT ![offset] =
            ToByte(BitOr(BitAnd(b[offset], BitNot(mask)),
                         BitAnd(Shl(color, shift), mask)))]

\* set_pixel past its bounds check
StorePixel(b, x, y, color) ==
    LET char_x == Shr(x, 1)
        char_y == Shr(y, 1)
        sub_x  == x % 2
        sub_y  == y % 2
        offset == row_offset[char_y] + char_x
        shift  == IF sub_y = 0
                  THEN (IF sub_x # 0 THEN PIXEL_TR_SHIFT ELSE PIXEL_TL_SHIFT)
                  ELSE (IF sub_x # 0 THEN PIXEL_BR_SHIFT ELSE PIXEL_BL_SHIFT)
        mask   == IF sub_y = 0
                  THEN (IF sub_x # 0 THEN PIXEL_TR_MASK ELSE PIXEL_TL_MASK)
                  ELSE (IF sub_x # 0 THEN PIXEL_BR_MASK ELSE PIXEL_BL_MASK)
    IN  [b EXCEPT ![offset] =
            ToByte(BitOr(BitAnd(b[offset], BitNot(mask)),
                         BitAnd(Shl(color, shift), mask)))]

set_pixel(b, x, y, color) ==
    IF OutOfBounds(x, y) THEN b ELSE StorePixel(b, x, y, color)

\* get_pixel past its bounds check
LoadPixel(b, x, y) ==
    LET char_x == Shr(x, 1)
        char_y == Shr(y, 1)
        sub_x  == x % 2
        sub_y  == y % 2
        offset == row_offset[char_y] + char_x
        shift  == IF sub_y = 0
                  THEN (IF sub_x # 0 THEN PIXEL_TR_SHIFT ELSE PIXEL_TL_SHIFT)
                  ELSE (IF sub_x # 0 THEN PIXEL_BR_SHIFT ELSE PIXEL_BL_SHIFT)
    IN  BitAnd(Shr(b[offset], shift), 3)

\* get_pixel that clamps the coordinate to the screen instead of returning 0
get_pixel_clamped(b, x, y) ==
    LET cx == IF x < 0 THEN 0 ELSE IF x >= SCREEN_WIDTH THEN SCREEN_WIDTH - 1 ELSE x
        cy == IF y < 0 THEN 0 ELSE IF y >= SCREEN_HEIGHT THEN SCREEN_HEIGHT - 1 ELSE y
    IN  LoadPixel(b, cx, cy)

get_pixel(b, x, y) ==
    IF OutOfBounds(x, y) THEN 0 ELSE LoadPixel(b, x, y)

---------------------------------------------------------------------------
(* SpanBlitter.  The blitters index the buffer through row = buf +          *)
(* row_offset[char_y] with no bounds check, so memory is the bytes plus a   *)
(* flag for an access outside the buffer or outside row_offset.             *)
Mem(b, u) == [b |-> b, ub |-> u]

Min(a, b) == IF a < b THEN a ELSE b
Max(a, b) == IF a > b THEN a ELSE b

\* row[char_x] = (row[char_x] & keep) | bits, with row = buf + base
StoreMasked(m, base, char_x, keep, bits) ==
    LET i == base + char_x
    IN  IF i \in Bytes
        THEN [m EXCEPT !.b[i] = ToByte(BitOr(BitAnd(m.b[i], keep), bits))]
        ELSE [m EXCEPT !.ub = TRUE]

\* the full-char loop storing bits without the masked old byte
FullChars_unmasked(m, base, from, to, keep, bits) ==
    LET lo == Max(from, -base)
        hi == Min(to, SCREEN_SIZE - base)
    IN  IF from >= to THEN m
        ELSE [b  |-> [i \in (base + lo)..(base + hi - 1) |-> ToByte(bits)] @@ m.b,
              ub |-> m.ub \/ from < -base \/ to > SCREEN_SIZE - base]

\* for (char_x = from; char_x < to; char_x++) row[char_x] = (row[char_x] & keep) | bits
\* (the iterations touch different bytes; those outside the buffer raise the flag)
FullChars(m, base, from, to, keep, bits) ==
    LET lo == Max(from, -base)
        hi == Min(to, SCREEN_SIZE - base)
    IN  IF from >= to THEN m
        ELSE [b  |-> [i \in (base + lo)..(base + hi - 1) |->
                         ToByte(BitOr(BitAnd(m.b[i], keep), bits))] @@ m.b,
              ub |-> m.ub \/ from < -base \/ to > SCREEN_SIZE - base]

\* the three stores shared by the blitters: left partial, full chars, right partial
SpanStores(m, y, xl, xr, mask_left, mask_right, keep_full, bits) ==
    LET char_y     == Shr(y, 1)
        char_start == Shr(xl, 1)
        full_start == Shr(xl + 1, 1)
        full_end   == Shr(xr, 1)
        char_end   == Shr(xr + 1, 1)
    IN  IF char_y \notin DOMAIN row_offset THEN [m EXCEPT !.ub = TRUE]
        ELSE LET base == row_offset[char_y]
                 m1 == IF char_start < full_start
                       THEN StoreMasked(m, base, char_start, BitNot(mask_left),
                                        BitAnd(bits, mask_left))
                       ELSE m
                 m2 == FullChars(m1, base, full_start, full_end, keep_full, bits)
             IN  IF full_end < char_end
                 THEN StoreMasked(m2, base, full_end, BitNot(mask_right),
                                  BitAnd(bits, mask_right))
                 ELSE m2

draw_span_top(m, y, xl, xr, color) ==
    IF xl >= xr THEN m
    ELSE LET mask_left  == PIXEL_TR_MASK
             mask_right == PIXEL_TL_MASK
             mask_full  == BitOr(PIXEL_TL_MASK, PIXEL_TR_MASK)
             color_bits == ToByte(BitOr(Shl(color, PIXEL_TL_SHIFT),
                                        Shl(color, PIXEL_TR_SHIFT)))
         IN  SpanStores(m, y, xl, xr, mask_left, mask_right,
                        BitNot(mask_full), color_bits)

draw_span_bottom(m, y, xl, xr, color) ==
    IF xl >= xr THEN m
    ELSE LET mask_left  == PIXEL_BR_MASK
             mask_right == PIXEL_BL_MASK
             mask_full  == BitOr(PIXEL_BL_MASK, PIXEL_BR_MASK)
             color_bits == ToByte(BitOr(Shl(color, PIXEL_BL_SHIFT),
                                        Shl(color, PIXEL_BR_SHIFT)))
         IN  SpanStores(m, y, xl, xr, mask_left, mask_right,
                        BitNot(mask_full), color_bits)

\* draw_dual_row_simple whose left partial char writes the top row only
draw_dual_row_simple_top_left(m, y, xl, xr, color) ==
    IF xl >= xr THEN m
    ELSE LET color_pattern ==
                 ToByte(BitOr(BitOr(Shl(color, PIXEL_TL_SHIFT),
                                    Shl(color, PIXEL_TR_SHIFT)),
                              BitOr(Shl(color, PIXEL_BL_SHIFT),
                                    Shl(color, PIXEL_BR_SHIFT))))
             mask_left  == top_row_mask[1]
             mask_right == BitOr(top_row_mask[2], bottom_row_mask[2])
         IN  SpanStores(m, y, xl, xr, mask_left, mask_right, 0, color_pattern)

\* full chars are stored unmasked: row[char_x] = color_pattern
draw_dual_row_simple(m, y, xl, xr, color) ==
    IF xl >= xr THEN m
    ELSE LET color_pattern ==
                 ToByte(BitOr(BitOr(Shl(color, PIXEL_TL_SHIFT),
                                    Shl(color, PIXEL_TR_SHIFT)),
                              BitOr(Shl(color, PIXEL_BL_SHIFT),
                                    Shl(color, PIXEL_BR_SHIFT))))
             mask_left  == BitOr(top_row_mask[1], bottom_row_mask[1])
             mask_right == BitOr(top_row_mask[2], bottom_row_mask[2])
         IN  SpanStores(m, y, xl, xr, mask_left, mask_right, 0, color_pattern)

\* a call of one of the three primitives
PrimCall(prim, y, xl, xr) == [prim |-> prim, y |-> y, xl |-> xl, xr |-> xr]

\* a decision tree that draws the whole top interval before the overlap
DualRowPlan_overdraw(y, xl1, xr1, xl2, xr2) ==
    IF xl1 >= xr1 /\ xl2 >= xr2 THEN [calls |-> <<>>, compared |-> 0]
    ELSE IF xl1 >= xr1
    THEN [calls |-> <<PrimCall("bottom", y + 1, xl2, xr2)>>, compared |-> 0]
    ELSE IF xl2 >= xr2
    THEN [calls |-> <<PrimCall("top", y, xl1, xr1)>>, compared |-> 0]
    ELSE IF xl1 <= xl2
    THEN IF xr2 <= xr1
         THEN [calls |-> <<PrimCall("top", y, xl1, xl2),
                           PrimCall("simple", y, xl2, xr2),
                           PrimCall("top", y, xr2, xr1)>>, compared |-> 2]
         ELSE IF xl2 <= xr1
         THEN [calls |-> <<PrimCall("top", y, xl1, xr1),
                           PrimCall("simple", y, xl2, xr1),
                           PrimCall("bottom", y + 1, xr1, xr2)>>, compared |-> 3]
         ELSE [calls |-> <<PrimCall("top", y, xl1, xr1),
                           PrimCall("bottom", y + 1, xl2, xr2)>>, compared |-> 3]
    ELSE IF xr1 < xr2
         THEN [calls |-> <<PrimCall("bottom", y + 1, xl2, xl1),
                           PrimCall("simple", y, xl1, xr1),
                           PrimCall("bottom", y + 1, xr1, xr2)>>, compared |-> 2]
         ELSE IF xl1 <= xr2
         THEN [calls |-> <<PrimCall("bottom", y + 1, xl2, xl1),
                           PrimCall("simple", y, xl1, xr2),
                           PrimCall("top", y, xr2, xr1)>>, compared |-> 3]
         ELSE [calls |-> <<PrimCall("bottom", y + 1, xl2, xr2),
                           PrimCall("top", y, xl1, xr1)>>, compared |-> 3]

\* the decision tree of draw_dual_row_intervals: the primitive calls it makes,
\* in order, and how many endpoint comparisons of the tree led to them
DualRowPlan(y, xl1, xr1, xl2, xr2) ==
    IF xl1 >= xr1 /\ xl2 >= xr2 THEN [calls |-> <<>>, compared |-> 0]
    ELSE IF xl1 >= xr1
    THEN [calls |-> <<PrimCall("bottom", y + 1, xl2, xr2)>>, compared |-> 0]
    ELSE IF xl2 >= xr2
    THEN [calls |-> <<PrimCall("top", y, xl1, xr1)>>, compared |-> 0]
    ELSE IF xl1 <= xl2
    THEN IF xr2 <= xr1
         THEN [calls |-> <<PrimCall("top", y, xl1, xl2),
                           PrimCall("simple", y, xl2, xr2),
                           PrimCall("top", y, xr2, xr1)>>, compared |-> 2]
         ELSE IF xl2 <= xr1
         THEN [calls |-> <<PrimCall("top", y, xl1, xl2),
                           PrimCall("simple", y, xl2, xr1),
                           PrimCall("bottom", y + 1, xr1, xr2)>>, compared |-> 3]
         ELSE [calls |-> <<PrimCall("top", y, xl1, xr1),
                           PrimCall("bottom", y + 1, xl2, xr2)>>, compared |-> 3]
    ELSE IF xr1 < xr2
         THEN [calls |-> <<PrimCall("bottom", y + 1, xl2, xl1),
                           PrimCall("simple", y, xl1, xr1),
                           PrimCall("bottom", y + 1, xr1, xr2)>>, compared |-> 2]
         ELSE IF xl1 <= xr2
         THEN [calls |-> <<PrimCall("bottom", y + 1, xl2, xl1),
                           PrimCall("simple", y, xl1, xr2),
                           PrimCall("top", y, xr2, xr1)>>, compared |-> 3]
         ELSE [calls |-> <<PrimCall("bottom", y + 1, xl2, xr2),
                           PrimCall("top", y, xl1, xr1)>>, compared |-> 3]

RECURSIVE ApplyCalls(_, _, _)
ApplyCalls(st, calls, color) ==
    IF st.n > Len(calls) THEN st.m
    ELSE LET c == calls[st.n]
         IN  ApplyCalls(
                 [m |-> CASE c.prim = "top"    -> draw_span_top(st.m, c.y, c.xl, c.xr, color)
                          [] c.prim = "bottom" -> draw_span_bottom(st.m, c.y, c.xl, c.xr, color)
                          [] c.prim = "simple" -> draw_dual_row_simple(st.m, c.y, c.xl, c.xr, color),
                  n |-> st.n + 1],
                 calls, color)

draw_dual_row_intervals(m, y, xl1, xr1, xl2, xr2, color) ==
    ApplyCalls([m |-> m, n |-> 1], DualRowPlan(y, xl1, xr1, xl2, xr2).calls, color)

---------------------------------------------------------------------------
(* TriangleRasterizer *)

\* the three conditional swaps of the y-sort; v holds the six coordinates
\* and the swap counter
SwapAB(v) ==
    IF v.ay > v.by
    THEN [v EXCEPT !.ax = v.bx, !.bx = v.ax, !.ay = v.by, !.by = v.ay,
                   !.swaps = @ + 1]
    ELSE v

\* the second swap without its swaps++
SwapBC_uncounted(v) ==
    IF v.by > v.cy
    THEN [v EXCEPT !.bx = v.cx, !.cx = v.bx, !.by = v.cy, !.cy = v.by]
    ELSE v

SwapBC(v) ==
    IF v.by > v.cy
    THEN [v EXCEPT !.bx = v.cx, !.cx = v.bx, !.by = v.cy, !.cy = v.by,
                   !.swaps = @ + 1]
    ELSE v

\* a sort that stops after two of the three swaps
SortVertices_two_swaps(ax, ay, bx, by, cx, cy) ==
    SwapBC(SwapAB([ax |-> ax, ay |-> ay, bx |-> bx, by |-> by,
                   cx |-> cx, cy |-> cy, swaps |-> 0]))

SortVertices(ax, ay, bx, by, cx, cy) ==
    SwapAB(SwapBC(SwapAB([ax |-> ax, ay |-> ay, bx |-> bx, by |-> by,
                          cx |-> cx, cy |-> cy, swaps |-> 0])))

Det(ax, ay, bx, by, cx, cy) == (bx - ax) * (cy - ay) - (by - ay) * (cx - ax)

\* a loop body that fills the closed interval [xl, xr] of each scanline
ScanStep_closed(st, y_end, dx_ac, dx_short, b_on_left, color, part) ==
    LET y      == st.y
        y_next == y + 1
        e1     == Shr(IF b_on_left # 0 THEN st.x_short ELSE st.x_long, FP_SHIFT)
        e2     == Shr(IF b_on_left # 0 THEN st.x_long ELSE st.x_short, FP_SHIFT)
        xl     == IF e1 > e2 THEN e2 ELSE e1
        xr     == (IF e1 > e2 THEN e1 ELSE e2) + 1
        x_long2  == st.x_long + dx_ac
        x_short2 == st.x_short + dx_short
        f1     == Shr(IF b_on_left # 0 THEN x_short2 ELSE x_long2, FP_SHIFT)
        f2     == Shr(IF b_on_left # 0 THEN x_long2 ELSE x_short2, FP_SHIFT)
        xl2    == IF f1 > f2 THEN f2 ELSE f1
        xr2    == (IF f1 > f2 THEN f1 ELSE f2) + 1
        rec(kind, a, b) ==
            [part |-> part, kind |-> kind, y |-> y, x_long |-> st.x_long,
             x_short |-> st.x_short, xl |-> xl, xr |-> xr, xl2 |-> a, xr2 |-> b]
    IN  IF y % 2 = 0 /\ y_next < y_end
        THEN [m       |-> draw_dual_row_intervals(st.m, y, xl, xr, xl2, xr2, color),
              x_long  |-> st.x_long + Shl(dx_ac, 1),
              x_short |-> st.x_short + Shl(dx_short, 1),
              y       |-> y + 2,
              steps   |-> Append(st.steps, rec("dual", xl2, xr2))]
        ELSE IF y % 2 = 0 /\ y_next >= y_end
        THEN [m       |-> draw_span_top(st.m, y, xl, xr, color),
              x_long  |-> st.x_long + dx_ac,
              x_short |-> st.x_short + dx_short,
              y       |-> y + 1,
              steps   |-> Append(st.steps, rec("top", xl, xr))]
        ELSE [m       |-> draw_span_bottom(st.m, y, xl, xr, color),
              x_long  |-> st.x_long + dx_ac,
              x_short |-> st.x_short + dx_short,
              y       |-> y + 1,
              steps   |-> Append(st.steps, rec("bottom", xl, xr))]

\* a loop body without if (xl > xr) swap_int(&xl, &xr)
ScanStep_no_swap(st, y_end, dx_ac, dx_short, b_on_left, color, part) ==
    LET y      == st.y
        y_next == y + 1
        e1     == Shr(IF b_on_left # 0 THEN st.x_short ELSE st.x_long, FP_SHIFT)
        e2     == Shr(IF b_on_left # 0 THEN st.x_long ELSE st.x_short, FP_SHIFT)
        xl     == e1
        xr     == e2
        x_long2  == st.x_long + dx_ac
        x_short2 == st.x_short + dx_short
        f1     == Shr(IF b_on_left # 0 THEN x_short2 ELSE x_long2, FP_SHIFT)
        f2     == Shr(IF b_on_left # 0 THEN x_long2 ELSE x_short2, FP_SHIFT)
        xl2    == f1
        xr2    == f2
        rec(kind, a, b) ==
            [part |-> part, kind |-> kind, y |-> y, x_long |-> st.x_long,
             x_short |-> st.x_short, xl |-> xl, xr |-> xr, xl2 |-> a, xr2 |-> b]
    IN  IF y % 2 = 0 /\ y_next < y_end
        THEN [m       |-> draw_dual_row_intervals(st.m, y, xl, xr, xl2, xr2, color),
              x_long  |-> st.x_long + Shl(dx_ac, 1),
              x_short |-> st.x_short + Shl(dx_short, 1),
              y       |-> y + 2,
              steps   |-> Append(st.steps, rec("dual", xl2, xr2))]
        ELSE IF y % 2 = 0 /\ y_next >= y_end
        THEN [m       |-> draw_span_top(st.m, y, xl, xr, color),
              x_long  |-> st.x_long + dx_ac,
              x_short |-> st.x_short + dx_short,
              y       |-> y + 1,
              steps   |-> Append(st.steps, rec("top", xl, xr))]
        ELSE [m       |-> draw_span_bottom(st.m, y, xl, xr, color),
              x_long  |-> st.x_long + dx_ac,
              x_short |-> st.x_short + dx_short,
              y       |-> y + 1,
              steps   |-> Append(st.steps, rec("bottom", xl, xr))]

\* One pass of a trapezoid loop body.  st is the loop state: the memory m, the
\* accumulators x_long and x_short, the scanline y and the blitter calls so far.
ScanStep(st, y_end, dx_ac, dx_short, b_on_left, color, part) ==
    LET y      == st.y
        y_next == y + 1
        e1     == Shr(IF b_on_left # 0 THEN st.x_short ELSE st.x_long, FP_SHIFT)
        e2     == Shr(IF b_on_left # 0 THEN st.x_long ELSE st.x_short, FP_SHIFT)
        xl     == IF e1 > e2 THEN e2 ELSE e1
        xr     == IF e1 > e2 THEN e1 ELSE e2
        x_long2  == st.x_long + dx_ac
        x_short2 == st.x_short + dx_short
        f1     == Shr(IF b_on_left # 0 THEN x_short2 ELSE x_long2, FP_SHIFT)
        f2     == Shr(IF b_on_left # 0 THEN x_long2 ELSE x_short2, FP_SHIFT)
        xl2    == IF f1 > f2 THEN f2 ELSE f1
        xr2    == IF f1 > f2 THEN f1 ELSE f2
        rec(kind, a, b) ==
            [part |-> part, kind |-> kind, y |-> y, x_long |-> st.x_long,
             x_short |-> st.x_short, xl |-> xl, xr |-> xr, xl2 |-> a, xr2 |-> b]
    IN  IF y % 2 = 0 /\ y_next < y_end
        THEN [m       |-> draw_dual_row_intervals(st.m, y, xl, xr, xl2, xr2, color),
              x_long  |-> st.x_long + Shl(dx_ac, 1),
              x_short |-> st.x_short + Shl(dx_short, 1),
              y       |-> y + 2,
              steps   |-> Append(st.steps, rec("dual", xl2, xr2))]
        ELSE IF y % 2 = 0 /\ y_next >= y_end
        THEN [m       |-> draw_span_top(st.m, y, xl, xr, color),
              x_long  |-> st.x_long + dx_ac,
              x_short |-> st.x_short + dx_short,
              y       |-> y + 1,
              steps   |-> Append(st.steps, rec("top", xl, xr))]
        ELSE [m       |-> draw_span_bottom(st.m, y, xl, xr, color),
              x_long  |-> st.x_long + dx_ac,
              x_short |-> st.x_short + dx_short,
              y       |-> y + 1,
              steps   |-> Append(st.steps, rec("bottom", xl, xr))]

\* the loop with y <= y_end as its condition
RECURSIVE Trapezoid_inclusive(_, _, _, _, _, _, _)
Trapezoid_inclusive(st, y_end, dx_ac, dx_short, b_on_left, color, part) ==
    IF st.y > y_end THEN st
    ELSE Trapezoid_inclusive(
             ScanStep(st, y_end, dx_ac, dx_short, b_on_left, color, part),
             y_end, dx_ac, dx_short, b_on_left, color, part)

\* while (y < y_end) { ... }
RECURSIVE Trapezoid(_, _, _, _, _, _, _)
Trapezoid(st, y_end, dx_ac, dx_short, b_on_left, color, part) ==
    IF st.y >= y_end THEN st
    ELSE Trapezoid(ScanStep(st, y_end, dx_ac, dx_short, b_on_left, color, part),
                   y_end, dx_ac, dx_short, b_on_left, color, part)

\* swaps & 1 with the two outcomes exchanged
SwapParity_flipped(swaps) == 1 - (swaps % 2)

\* int b_on_left = (swaps & 1)
SwapParity(swaps) == swaps % 2

\* a scan conversion that starts the long edge again at the bottom trapezoid
ScanConvert_restart_long(m, v, color) ==
    LET b_on_left == SwapParity(v.swaps)
        dx_ac  == CDiv(Shl(v.cx - v.ax, 8), v.cy - v.ay)
        x_long == Shl(v.ax, 8) + Shr(dx_ac, 1)
        st0    == [m |-> m, x_long |-> x_long, x_short |-> 0, y |-> v.ay,
                   steps |-> <<>>]
        st1    == IF v.ay < v.by
                  THEN LET dx_ab == CDiv(Shl(v.bx - v.ax, 8), v.by - v.ay)
                       IN  Trapezoid([st0 EXCEPT !.x_short = Shl(v.ax, 8) + Shr(dx_ab, 1)],
                                     v.by, dx_ac, dx_ab, b_on_left, color, "top")
                  ELSE st0
    IN  IF v.by < v.cy
        THEN LET dx_bc == CDiv(Shl(v.cx - v.bx, 8), v.cy - v.by)
             IN  Trapezoid([st1 EXCEPT !.x_short = Shl(v.bx, 8) + Shr(dx_bc, 1),
                                       !.x_long = x_long],
                           v.cy, dx_ac, dx_bc, b_on_left, color, "bottom")
        ELSE st1

\* a scan conversion that starts the long edge a whole slope past A
ScanConvert_whole_step(m, v, color) ==
    LET b_on_left == SwapParity(v.swaps)
        dx_ac  == CDiv(Shl(v.cx - v.ax, 8), v.cy - v.ay)
        x_long == Shl(v.ax, 8) + dx_ac
        st0    == [m |-> m, x_long |-> x_long, x_short |-> 0, y |-> v.ay,
                   steps |-> <<>>]
        st1    == IF v.ay < v.by
                  THEN LET dx_ab == CDiv(Shl(v.bx - v.ax, 8), v.by - v.ay)
                       IN  Trapezoid([st0 EXCEPT !.x_short = Shl(v.ax, 8) + Shr(dx_ab, 1)],
                                     v.by, dx_ac, dx_ab, b_on_left, color, "top")
                  ELSE st0
    IN  IF v.by < v.cy
        THEN LET dx_bc == CDiv(Shl(v.cx - v.bx, 8), v.cy - v.by)
             IN  Trapezoid([st1 EXCEPT !.x_short = Shl(v.bx, 8) + Shr(dx_bc, 1)],
                           v.cy, dx_ac, dx_bc, b_on_left, color, "bottom")
        ELSE st1

\* a scan conversion that samples the long edge at the top of each scanline
\* and the short edges at its middle
ScanConvert_long_from_top(m, v, color) ==
    LET b_on_left == SwapParity(v.swaps)
        dx_ac  == CDiv(Shl(v.cx - v.ax, 8), v.cy - v.ay)
        x_long == Shl(v.ax, 8)
        st0    == [m |-> m, x_long |-> x_long, x_short |-> 0, y |-> v.ay,
                   steps |-> <<>>]
        st1    == IF v.ay < v.by
                  THEN LET dx_ab == CDiv(Shl(v.bx - v.ax, 8), v.by - v.ay)
                       IN  Trapezoid([st0 EXCEPT !.x_short = Shl(v.ax, 8) + Shr(dx_ab, 1)],
                                     v.by, dx_ac, dx_ab, b_on_left, color, "top")
                  ELSE st0
    IN  IF v.by < v.cy
        THEN LET dx_bc == CDiv(Shl(v.cx - v.bx, 8), v.cy - v.by)
             IN  Trapezoid([st1 EXCEPT !.x_short = Shl(v.bx, 8) + Shr(dx_bc, 1)],
                           v.cy, dx_ac, dx_bc, b_on_left, color, "bottom")
        ELSE st1

\* the scan conversion of the sorted vertices v, past the two early returns,
\* for a given value of b_on_left
ScanConvertWith(m, v, color, b_on_left) ==
    LET dx_ac  == CDiv(Shl(v.cx - v.ax, 8), v.cy - v.ay)
        x_long == Shl(v.ax, 8) + Shr(dx_ac, 1)
        st0    == [m |-> m, x_long |-> x_long, x_short |-> 0, y |-> v.ay,
                   steps |-> <<>>]
        st1    == IF v.ay < v.by
                  THEN LET dx_ab == CDiv(Shl(v.bx - v.ax, 8), v.by - v.ay)
                       IN  Trapezoid([st0 EXCEPT !.x_short = Shl(v.ax, 8) + Shr(dx_ab, 1)],
                                     v.by, dx_ac, dx_ab, b_on_left, color, "top")
                  ELSE st0
    IN  IF v.by < v.cy
        THEN LET dx_bc == CDiv(Shl(v.cx - v.bx, 8), v.cy - v.by)
             IN  Trapezoid([st1 EXCEPT !.x_short = Shl(v.bx, 8) + Shr(dx_bc, 1)],
                           v.cy, dx_ac, dx_bc, b_on_left, color, "bottom")
        ELSE st1

\* int b_on_left = (swaps & 1), then the scan conversion
ScanConvert(m, v, color) == ScanConvertWith(m, v, color, SwapParity(v.swaps))

\* draw_triangle that culls the other winding
draw_triangle_cull_ccw(m, ax, ay, bx, by, cx, cy, color) ==
    LET v == SortVertices(ax, ay, bx, by, cx, cy)
    IN  IF Det(ax, ay, bx, by, cx, cy) > 0
        THEN [m |-> m, steps |-> <<>>, end |-> "culled"]
        ELSE IF v.ay = v.cy
        THEN [m |-> m, steps |-> <<>>, end |-> "flat"]
        ELSE LET st == ScanConvert(m, v, color)
             IN  [m |-> st.m, steps |-> st.steps, end |-> "drawn"]

\* the result: the memory, the blitter calls made, and how the call ended
draw_triangle(m, ax, ay, bx, by, cx, cy, color) ==
    LET v == SortVertices(ax, ay, bx, by, cx, cy)
    IN  IF Det(ax, ay, bx, by, cx, cy) < 0
        THEN [m |-> m, steps |-> <<>>, end |-> "culled"]
        ELSE IF v.ay = v.cy
        THEN [m |-> m, steps |-> <<>>, end |-> "flat"]
        ELSE LET st == ScanConvert(m, v, color)
             IN  [m |-> st.m, steps |-> st.steps, end |-> "drawn"]

---------------------------------------------------------------------------
(* MeshTransform *)

\* init_mesh_tables: (int8_t)(cos(i * 2 pi / 256) * 127.0) and the same of sin,
\* i = 0..255, as the C library computes them
rcos_table ==
    <<127, 126, 126, 126, 126, 126, 125, 125, 124, 123, 123, 122, 121, 120,
      119, 118, 117, 116, 114, 113, 112, 110, 108, 107, 105, 103, 102, 100,
      98, 96, 94, 91, 89, 87, 85, 82, 80, 78, 75, 73, 70, 67, 65, 62, 59,
      57, 54, 51, 48, 45, 42, 39, 36, 33, 30, 27, 24, 21, 18, 15, 12, 9, 6,
      3, 0, -3, -6, -9, -12, -15, -18, -21, -24, -27, -30, -33, -36, -39,
      -42, -45, -48, -51, -54, -57, -59, -62, -65, -67, -70, -73, -75, -78,
      -80, -82, -85, -87, -89, -91, -94, -96, -98, -100, -102, -103, -105,
      -107, -108, -110, -112, -113, -114, -116, -117, -118, -119, -120,
      -121, -122, -123, -123, -124, -125, -125, -126, -126, -126, -126,
      -126, -127, -126, -126, -126, -126, -126, -125, -125, -124, -123,
      -123, -122, -121, -120, -119, -118, -117, -116, -114, -113, -112,
      -110, -108, -107, -105, -103, -102, -100, -98, -96, -94, -91, -89,
      -87, -85, -82, -80, -78, -75, -73, -70, -67, -65, -62, -59, -57, -54,
      -51, -48, -45, -42, -39, -36, -33, -30, -27, -24, -21, -18, -15, -12,
      -9, -6, -3, 0, 3, 6, 9, 12, 15, 18, 21, 24, 27, 30, 33, 36, 39, 42,
      45, 48, 51, 54, 57, 59, 62, 65, 67, 70, 73, 75, 78, 80, 82, 85, 87,
      89, 91, 94, 96, 98, 100, 102, 103, 105, 107, 108, 110, 112, 113, 114,
      116, 117, 118, 119, 120, 121, 122, 123, 123, 124, 125, 125, 126, 126,
      126, 126, 126>>

rsin_table ==
    <<0, 3, 6, 9, 12, 15, 18, 21, 24, 27, 30, 33, 36, 39, 42, 45, 48, 51,
      54, 57, 59, 62, 65, 67, 70, 73, 75, 78, 80, 82, 85, 87, 89, 91, 94,
      96, 98, 100, 102, 103, 105, 107, 108, 110, 112, 113, 114, 116, 117,
      118, 119, 120, 121, 122, 123, 123, 124, 125, 125, 126, 126, 126, 126,
      126, 127, 126, 126, 126, 126, 126, 125, 125, 124, 123, 123, 122, 121,
      120, 119, 118, 117, 116, 114, 113, 112, 110, 108, 107, 105, 103, 102,
      100, 98, 96, 94, 91, 89, 87, 85, 82, 80, 78, 75, 73, 70, 67, 65, 62,
      59, 57, 54, 51, 48, 45, 42, 39, 36, 33, 30, 27, 24, 21, 18, 15, 12,
      9, 6, 3, 0, -3, -6, -9, -12, -15, -18, -21, -24, -27, -30, -33, -36,
      -39, -42, -45, -48, -51, -54, -57, -59, -62, -65, -67, -70, -73, -75,
      -78, -80, -82, -85, -87, -89, -91, -94, -96, -98, -100, -102, -103,
      -105, -107, -108, -110, -112, -113, -114, -116, -117, -118, -119,
      -120, -121, -122, -123, -123, -124, -125, -125, -126, -126, -126,
      -126, -126, -127, -126, -126, -126, -126, -126, -125, -125, -124,
      -123, -123, -122, -121, -120, -119, -118, -117, -116, -114, -113,
      -112, -110, -108, -107, -105, -103, -102, -100, -98, -96, -94, -91,
      -89, -87, -85, -82, -80, -78, -75, -73, -70, -67, -65, -62, -59, -57,
      -54, -51, -48, -45, -42, -39, -36, -33, -30, -27, -24, -21, -18, -15,
      -12, -9, -6, -3>>

rcos(theta) == rcos_table[theta + 1]
\* the sine looked up in the cosine table
rsin_from_rcos(theta) == rcos_table[theta + 1]

rsin(theta) == rsin_table[theta + 1]

\* the value an int16_t holds after an int is stored into it
ToInt16(a) == ((a + 32768) % 65536) - 32768

\* A mesh is a record: the face arrays i, j, k, col and the vertex arrays x, y, z
\* as sequences (element n of the C array is element n + 1 here), and px, py,
\* pz, theta.
\* The body of the vertex loop for vertex v (0-based), up to the world_z test.
WorldOf(m, v) ==
    LET c  == rcos(m.theta)
        s  == rsin(m.theta)
        lx == m.x[v + 1]
        ly == m.y[v + 1]
        lz == m.z[v + 1]
        rot_x == ToInt16(Shr(c * lx + s * lz, 7))
        rot_z == ToInt16(Shr((-s) * lx + c * lz, 7))
    IN  [rot_x   |-> rot_x,
         rot_z   |-> rot_z,
         world_x |-> ToInt16(rot_x + m.px),
         world_z |-> ToInt16(rot_z + m.pz),
         world_y |-> ToInt16(ly + m.py)]

\* for (v = 0; v < num_vertices; v++) ..., from loop state st; ret is -1 as soon
\* as a vertex has world_z <= 0, and screen_x, screen_y hold the vertices before it
RECURSIVE TransformFrom(_, _)
TransformFrom(st, m) ==
    IF st.v >= Len(m.x) THEN [st EXCEPT !.ret = 0]
    ELSE LET w == WorldOf(m, st.v)
         IN  IF w.world_z <= 0 THEN [st EXCEPT !.ret = -1]
             ELSE TransformFrom(
                      [v        |-> st.v + 1,
                       ret      |-> st.ret,
                       screen_x |-> Append(st.screen_x,
                                       ToInt16(40 + CDiv(Shl(w.world_x, 8), w.world_z))),
                       screen_y |-> Append(st.screen_y,
                                       ToInt16(25 - CDiv(Shl(w.world_y, 8), w.world_z)))],
                      m)

transform_mesh(m) ==
    TransformFrom([v |-> 0, ret |-> 0, screen_x |-> <<>>, screen_y |-> <<>>], m)

\* for (f = 0; f < num_faces; f++) draw_triangle(...), from loop state st
RECURSIVE FacesFrom(_, _, _)
FacesFrom(st, m, t) ==
    IF st.f >= Len(m.i) THEN st
    ELSE LET vi == m.i[st.f + 1]
             vj == m.j[st.f + 1]
             vk == m.k[st.f + 1]
             a  == <<t.screen_x[vi + 1], t.screen_y[vi + 1],
                     t.screen_x[vj + 1], t.screen_y[vj + 1],
                     t.screen_x[vk + 1], t.screen_y[vk + 1], m.col[st.f + 1]>>
             r  == draw_triangle(st.m, a[1], a[2], a[3], a[4], a[5], a[6], a[7])
         IN  FacesFrom([m |-> r.m, f |-> st.f + 1, log |-> Append(st.log, a)], m, t)

\* render_mesh that drops only the faces with a vertex it did not transform
render_mesh_per_face(mem, m) ==
    LET t    == transform_mesh(m)
        done == Len(t.screen_x)
        keep == {f \in 1..Len(m.i) : m.i[f] < done /\ m.j[f] < done /\ m.k[f] < done}
        pick(q) == [n \in 1..Cardinality(keep) |->
                      q[CHOOSE f \in keep : Cardinality({g \in keep : g < f}) = n - 1]]
    IN  FacesFrom([m |-> mem, f |-> 0, log |-> <<>>],
                  [m EXCEPT !.i = pick(m.i), !.j = pick(m.j), !.k = pick(m.k),
                            !.col = pick(m.col)], t)

\* render_mesh that walks the faces from the last to the first
render_mesh_backwards(mem, m) ==
    LET t == transform_mesh(m)
        n == Len(m.i)
        rev(q) == [f \in 1..n |-> q[n + 1 - f]]
    IN  IF t.ret < 0 THEN [m |-> mem, f |-> 0, log |-> <<>>]
        ELSE FacesFrom([m |-> mem, f |-> 0, log |-> <<>>],
                       [m EXCEPT !.i = rev(m.i), !.j = rev(m.j), !.k = rev(m.k),
                                 !.col = rev(m.col)], t)

render_mesh(mem, m) ==
    LET t == transform_mesh(m)
    IN  IF t.ret < 0 THEN [m |-> mem, f |-> 0, log |-> <<>>]
        ELSE FacesFrom([m |-> mem, f |-> 0, log |-> <<>>], m, t)

---------------------------------------------------------------------------
(* Inputs *)
NumPatterns == 2
PixelSpan == 2

Colors == 0..3

\* a caller's buffer before the call: cleared (p = 0) or holding other bytes
Pattern(p) == [i \in Bytes |-> (p * (i * i + 7 * i + 27)) % 256]

Patterns == {Pattern(p) : p \in 0..(NumPatterns - 1)}

\* coordinates around both ends of an axis of length n, one step outside too
Around(n, span) == ((-1)..span) \cup ((n - 1 - span)..n)

BlitSpan == 3

\* the first and the last pair of scanlines
BlitYs == {0, SCREEN_HEIGHT - 2}

\* span endpoints: all four in one short window at the left edge, at the
\* right edge (SCREEN_WIDTH included) or inside the scanline ...
BlitNear ==
    {<<y, w + e[1], w + e[2], w + e[3], w + e[4], color>> :
        y \in BlitYs, w \in {0, 37, SCREEN_WIDTH - BlitSpan},
        e \in (0..BlitSpan) \X (0..BlitSpan) \X (0..BlitSpan) \X (0..BlitSpan),
        color \in Colors}

\* ... or spread over the whole scanline
BlitWide ==
    {<<20, e[1], e[2], e[3], e[4], 2>> :
        e \in {1, 16, 63, SCREEN_WIDTH} \X {0, 15, 64, SCREEN_WIDTH - 1}
               \X {0, 17, 62, SCREEN_WIDTH} \X {1, 16, 63, SCREEN_WIDTH - 1}}

BlitArgs == BlitNear \cup BlitWide

\* single spans: both endpoints in the windows of BlitNear, in either order
SpanEnds == UNION {{w + e : e \in 0..BlitSpan} : w \in {0, 37, SCREEN_WIDTH - BlitSpan}}

SpanRows == {0, SCREEN_HEIGHT - 2}

SpanArgs ==
    {<<y, xl, xr, color>> : y \in SpanRows, xl \in SpanEnds, xr \in SpanEnds,
                            color \in Colors}

TriSpan == 2

\* every triangle with its vertices in a small window, as run_exhaustive_tests
\* draws them, at the top-left corner, at two places inside and at the
\* bottom-right corner; the third component is the color drawn there
TriOrigins ==
    {<<0, 0, 1>>, <<35, 20, 2>>, <<20, 31, 0>>,
     <<SCREEN_WIDTH - 1 - TriSpan, SCREEN_HEIGHT - 1 - TriSpan, 3>>}

WindowPoints(o) == {<<o[1] + i, o[2] + j>> : i \in 0..TriSpan, j \in 0..TriSpan}

TriWindow ==
    UNION {{<<a[1], a[2], b[1], b[2], c[1], c[2], o[3]>> :
               a \in WindowPoints(o), b \in WindowPoints(o), c \in WindowPoints(o)} :
           o \in TriOrigins}

\* the triangles of run_manual_tests and run_demo that lie on the screen, and
\* triangles that span it, each in its three rotations and two windings
Rotations(t) ==
    {<<t[1], t[2], t[3], t[4], t[5], t[6], t[7]>>,
     <<t[3], t[4], t[5], t[6], t[1], t[2], t[7]>>,
     <<t[5], t[6], t[1], t[2], t[3], t[4], t[7]>>,
     <<t[1], t[2], t[5], t[6], t[3], t[4], t[7]>>,
     <<t[5], t[6], t[3], t[4], t[1], t[2], t[7]>>,
     <<t[3], t[4], t[1], t[2], t[5], t[6], t[7]>>}

TriManual ==
    UNION {Rotations(t) : t \in
        {<<40, 10, 20, 40, 60, 40, 1>>,
         <<20, 10, 60, 10, 40, 40, 2>>,
         <<40, 25, 41, 26, 42, 25, 1>>,
         <<40, 25, 40, 25, 40, 25, 2>>,
         <<30, 25, 35, 25, 40, 25, 1>>,
         <<40, 20, 40, 25, 40, 30, 1>>,
         <<10, 10, 10, 30, 30, 30, 2>>,
         <<10, 10, 70, 40, 10, 40, 1>>,
         <<40, 25, 56, 34, 40, 43, 1>>,
         <<0, 0, 0, 49, 79, 49, 3>>,
         <<0, 0, 79, 0, 79, 49, 0>>,
         <<0, 48, 79, 1, 78, 49, 2>>,
         <<79, 0, 0, 24, 79, 49, 3>>,
         <<3, 5, 76, 6, 40, 7, 1>>}}

\* triangles with vertices off the screen
OffPoints == {<<-3, -2>>, <<84, 10>>, <<40, 53>>, <<40, 25>>, <<10, 40>>, <<90, 25>>}

TriOff ==
    {<<a[1], a[2], b[1], b[2], c[1], c[2], 1>> :
        a \in OffPoints, b \in OffPoints, c \in OffPoints}
    \cup Rotations(<<60, 10, 90, 15, 60, 20, 1>>)

\* three points on one line that is not a scanline
TriCollinear ==
    Rotations(<<0, 0, 1, 6, 7, 42, 1>>) \cup Rotations(<<10, 10, 20, 20, 30, 30, 2>>)

\* the steepest edges the screen allows, one and two scanlines high
TriSteep ==
    UNION {Rotations(t) : t \in
        {<<0, 0, 0, 0, SCREEN_WIDTH - 1, 1, 1>>,
         <<0, 0, SCREEN_WIDTH - 1, 0, 0, 1, 2>>,
         <<SCREEN_WIDTH - 1, 10, 0, 11, SCREEN_WIDTH - 1, 12, 3>>,
         <<0, 46, SCREEN_WIDTH - 1, 48, 0, SCREEN_HEIGHT - 1, 1>>,
         <<SCREEN_WIDTH - 1, 0, 0, 2, SCREEN_WIDTH - 1, 4, 2>>}}

\* triangles with vertices on the column SCREEN_WIDTH and the scanline
\* SCREEN_HEIGHT, the ends of the half-open ranges: the six faces of the cube
\* of run_demo, then the whole screen and the bottom-right corner
TriBorder ==
    UNION {Rotations(t) : t \in
        {<<40, 25, 80, 37, 40, 50, 1>>, <<40, 25, 40, 50, 0, 37, 1>>,
         <<40, 25, 40, 0, 80, 13, 2>>, <<40, 25, 80, 13, 80, 37, 2>>,
         <<40, 25, 0, 37, 0, 13, 3>>, <<40, 25, 0, 13, 40, 0, 3>>,
         <<0, 0, SCREEN_WIDTH, 0, SCREEN_WIDTH, SCREEN_HEIGHT, 1>>,
         <<SCREEN_WIDTH, 0, SCREEN_WIDTH, SCREEN_HEIGHT, 0, SCREEN_HEIGHT, 2>>,
         <<40, 0, SCREEN_WIDTH, SCREEN_HEIGHT, 0, 47, 3>>,
         <<SCREEN_WIDTH - 2, SCREEN_HEIGHT - 3, SCREEN_WIDTH, SCREEN_HEIGHT - 1,
           SCREEN_WIDTH - 1, SCREEN_HEIGHT, 1>>,
         <<SCREEN_WIDTH, 20, 70, 23, SCREEN_WIDTH, 25, 2>>}}

TriArgs == TriWindow \cup TriManual \cup TriOff \cup TriCollinear \cup TriSteep

\* every triangle with its vertices in a small window inside the screen, at
\* odd coordinates, and in the window that ends on column SCREEN_WIDTH and
\* scanline SCREEN_HEIGHT
BoxOrigins == {<<35, 21, 2>>, <<SCREEN_WIDTH - TriSpan, SCREEN_HEIGHT - TriSpan, 3>>}

TriBoxWindow ==
    UNION {{<<a[1], a[2], b[1], b[2], c[1], c[2], o[3]>> :
               a \in WindowPoints(o), b \in WindowPoints(o), c \in WindowPoints(o)} :
           o \in BoxOrigins}

TriBoxArgs ==
    TriBoxWindow \cup TriBorder \cup TriManual \cup TriOff \cup TriCollinear
        \cup TriSteep

PixelXs == Around(SCREEN_WIDTH, PixelSpan)
PixelYs == Around(SCREEN_HEIGHT, PixelSpan)

\* the octahedron of run_cube_demo
Octahedron ==
    [i |-> <<0, 1, 0, 1, 0, 1, 0, 1>>, j |-> <<4, 3, 3, 5, 2, 4, 5, 2>>,
     k |-> <<3, 4, 5, 3, 4, 2, 2, 5>>, col |-> <<1, 2, 3, 1, 2, 3, 1, 2>>,
     x |-> <<120, -120, 0, 0, 0, 0>>, y |-> <<0, 0, 120, -120, 0, 0>>,
     z |-> <<0, 0, 0, 0, 120, -120>>]

\* three triangles that overlap on screen and face the same way, the back of
\* the first one, and a last vertex that no face uses
Layers ==
    [i |-> <<0, 3, 3, 0>>, j |-> <<2, 5, 2, 1>>, k |-> <<1, 4, 1, 2>>,
     col |-> <<1, 2, 3, 0>>,
     x |-> <<-100, 100, 0, -40, 60, -20, 0>>,
     y |-> <<-90, -90, 100, -30, -30, 60, 0>>,
     z |-> <<0, 0, 0, 10, 10, 10, -128>>]

Shapes == {Octahedron, Layers}

\* one small triangle facing the camera and a last vertex far behind it that
\* no face uses
Wedge ==
    [i |-> <<0>>, j |-> <<2>>, k |-> <<1>>, col |-> <<1>>,
     x |-> <<-10, 10, 0, 0>>, y |-> <<-6, -6, 8, 0>>, z |-> <<0, 0, 0, -128>>]

\* Wedge with a second face on its last vertex
Fin ==
    [i |-> <<0, 0>>, j |-> <<2, 1>>, k |-> <<1, 3>>, col |-> <<1, 2>>,
     x |-> Wedge.x, y |-> Wedge.y, z |-> Wedge.z]

Placed(shape, px, py, pz, theta) ==
    [i |-> shape.i, j |-> shape.j, k |-> shape.k, col |-> shape.col,
     x |-> shape.x, y |-> shape.y, z |-> shape.z,
     px |-> px, py |-> py, pz |-> pz, theta |-> theta]

MaxTurn == 3
\* rotations, starting from the one of run_cube_demo
Thetas == {(20 + 44 * n) % 256 : n \in 0..MaxTurn}

\* the whole mesh in front of the camera, on screen or partly beside it
MeshInView ==
    {Placed(sh, q[1], q[2], q[3], th) :
        sh \in Shapes,
        q \in {<<0, -25, 1500>>, <<300, -25, 1500>>, <<0, -45, 1000>>, <<0, 40, 600>>},
        th \in Thetas}

\* some vertex at or behind the camera plane: the first one, a later one
\* that faces use, the last one that no face uses, and a vertex whose
\* world_z passes 32767
MeshBehind ==
    {Placed(Octahedron, 0, -25, -50, 20), Placed(Fin, 0, 0, 100, 20),
     Placed(Octahedron, 0, -25, 100, 108), Placed(Octahedron, 0, -25, 0, 64),
     Placed(Wedge, 0, 0, 100, 20), Placed(Layers, 0, -25, 100, 64),
     Placed(Layers, 0, -25, -50, 108), Placed(Octahedron, 0, -25, 32767, 20)}
    \cup {Placed(sh, 0, -25, pz, th) : sh \in Shapes, pz \in {-200, -300}, th \in Thetas}

\* px at the end of the int16_t range
MeshFar == {Placed(sh, 32767, -25, 1500, th) : sh \in Shapes, th \in Thetas}

MeshArgs == MeshInView \cup MeshBehind \cup MeshFar

\* vertices at the ends of the int8_t range and beside zero, no faces, far
\* enough from the camera for every rotation, at every angle
EndCoords == {-128, -127, -1, 0, 1, 127}

EndVertices ==
    [n \in 1..(Cardinality(EndCoords) * Cardinality(EndCoords)) |->
        CHOOSE p \in EndCoords \X EndCoords :
            Cardinality({q \in EndCoords \X EndCoords :
                            q[1] < p[1] \/ (q[1] = p[1] /\ q[2] < p[2])}) = n - 1]

Corners ==
    [i |-> <<>>, j |-> <<>>, k |-> <<>>, col |-> <<>>,
     x |-> [n \in DOMAIN EndVertices |-> EndVertices[n][1]],
     y |-> [n \in DOMAIN EndVertices |-> 0],
     z |-> [n \in DOMAIN EndVertices |-> EndVertices[n][2]]]

RotArgs == {Placed(Corners, 0, 0, 1000, th) : th \in 0..255}

---------------------------------------------------------------------------
\* every behaviour is one call on a buffer as the caller hands it over
Fresh == call.op = "init"

InitBuf ==
    /\ buf \in Patterns
    /\ pre = buf
    /\ call = [op |-> "init", args |-> <<>>]
    /\ ret = 0
    /\ ub = FALSE
    /\ steps = <<>>
    /\ log = <<>>

ClearScreen(color) ==
    /\ Fresh
    /\ buf' = clear_screen(color)
    /\ pre' = buf
    /\ call' = [op |-> "clear_screen", args |-> <<color>>]
    /\ UNCHANGED <<ret, ub, steps, log>>

SetPixel(x, y, color) ==
    /\ Fresh
    /\ buf' = set_pixel(buf, x, y, color)
    /\ pre' = buf
    /\ call' = [op |-> "set_pixel", args |-> <<x, y, color>>]
    /\ UNCHANGED <<ret, ub, steps, log>>

GetPixel(x, y) ==
    /\ Fresh
    /\ ret' = get_pixel(buf, x, y)
    /\ pre' = buf
    /\ call' = [op |-> "get_pixel", args |-> <<x, y>>]
    /\ UNCHANGED <<buf, ub, steps, log>>

NextPixel ==
    \/ Fresh /\ \E color \in Colors : ClearScreen(color)
    \/ Fresh /\ \E x \in PixelXs, y \in PixelYs, color \in Colors : SetPixel(x, y, color)
    \/ Fresh /\ \E x \in PixelXs, y \in PixelYs : GetPixel(x, y)

SpecPixel == InitBuf /\ [][NextPixel]_vars

DrawDualRowIntervals(y, xl1, xr1, xl2, xr2, color) ==
    /\ Fresh
    /\ LET m == draw_dual_row_intervals(Mem(buf, ub), y, xl1, xr1, xl2, xr2, color)
       IN  buf' = m.b /\ ub' = m.ub
    /\ pre' = buf
    /\ call' = [op |-> "draw_dual_row_intervals",
                args |-> <<y, xl1, xr1, xl2, xr2, color>>]
    /\ UNCHANGED <<ret, steps, log>>

NextBlit ==
    /\ Fresh
    /\ \E a \in BlitArgs : DrawDualRowIntervals(a[1], a[2], a[3], a[4], a[5], a[6])

SpecBlit == InitBuf /\ [][NextBlit]_vars

DrawSpanTop(y, xl, xr, color) ==
    /\ LET m == draw_span_top(Mem(buf, ub), y, xl, xr, color)
       IN  buf' = m.b /\ ub' = m.ub
    /\ pre' = buf
    /\ call' = [op |-> "draw_span_top", args |-> <<y, xl, xr, color>>]
    /\ UNCHANGED <<ret, steps, log>>

DrawSpanBottom(y, xl, xr, color) ==
    /\ LET m == draw_span_bottom(Mem(buf, ub), y, xl, xr, color)
       IN  buf' = m.b /\ ub' = m.ub
    /\ pre' = buf
    /\ call' = [op |-> "draw_span_bottom", args |-> <<y, xl, xr, color>>]
    /\ UNCHANGED <<ret, steps, log>>

DrawDualRowSimple(y, xl, xr, color) ==
    /\ LET m == draw_dual_row_simple(Mem(buf, ub), y, xl, xr, color)
       IN  buf' = m.b /\ ub' = m.ub
    /\ pre' = buf
    /\ call' = [op |-> "draw_dual_row_simple", args |-> <<y, xl, xr, color>>]
    /\ UNCHANGED <<ret, steps, log>>

\* the top blitter on even rows, the bottom blitter on the odd rows below them
NextSpan ==
    \/ Fresh /\ \E a \in SpanArgs : DrawSpanTop(a[1], a[2], a[3], a[4])
    \/ Fresh /\ \E a \in SpanArgs : DrawSpanBottom(a[1] + 1, a[2], a[3], a[4])
    \/ Fresh /\ \E a \in SpanArgs : DrawDualRowSimple(a[1], a[2], a[3], a[4])

SpecSpan == InitBuf /\ [][NextSpan]_vars

DrawTriangle(ax, ay, bx, by, cx, cy, color) ==
    /\ Fresh
    /\ LET r == draw_triangle(Mem(buf, ub), ax, ay, bx, by, cx, cy, color)
       IN  buf' = r.m.b /\ ub' = r.m.ub /\ steps' = r.steps
    /\ pre' = buf
    /\ call' = [op |-> "draw_triangle", args |-> <<ax, ay, bx, by, cx, cy, color>>]
    /\ UNCHANGED <<ret, log>>

NextTri ==
    /\ Fresh
    /\ \E t \in TriArgs : DrawTriangle(t[1], t[2], t[3], t[4], t[5], t[6], t[7])

SpecTri == InitBuf /\ [][NextTri]_vars

NextTriBox ==
    /\ Fresh
    /\ \E t \in TriBoxArgs : DrawTriangle(t[1], t[2], t[3], t[4], t[5], t[6], t[7])

SpecTriBox == InitBuf /\ [][NextTriBox]_vars

RenderMesh(m) ==
    LET r == render_mesh(Mem(buf, FALSE), m)
    IN  /\ buf' = r.m.b
        /\ ub' = r.m.ub
        /\ log' = r.log
        /\ pre' = buf
        /\ call' = [op |-> "render_mesh", args |-> <<m>>]
        /\ UNCHANGED <<ret, steps>>

NextMesh ==
    /\ Fresh
    /\ \E m \in MeshArgs : RenderMesh(m)

SpecMesh == InitBuf /\ [][NextMesh]_vars

TransformMesh(m) ==
    LET t == transform_mesh(m)
    IN  /\ ret' = t.ret
        /\ log' = <<t.screen_x, t.screen_y>>
        /\ call' = [op |-> "transform_mesh", args |-> <<m>>]
        /\ pre' = buf
        /\ UNCHANGED <<buf, ub, steps>>

NextRot ==
    /\ Fresh
    /\ \E m \in RotArgs : TransformMesh(m)

SpecRot == InitBuf /\ [][NextRot]_vars

---------------------------------------------------------------------------
(* Properties of the PixelBuffer operations *)
Valid == {<<x, y>> : x \in 0..(SCREEN_WIDTH - 1), y \in 0..(SCREEN_HEIGHT - 1)}

Arg(i) == call.args[i]

\* the byte and the bit position the layout of rasterize.h gives pixel (x, y)
ByteOf(x, y) == Shr(y, 1) * CHAR_WIDTH + Shr(x, 1)

BitsOf(x, y) ==
    CASE x % 2 = 0 /\ y % 2 = 0 -> 6
      [] x % 2 = 1 /\ y % 2 = 0 -> 4
      [] x % 2 = 0 /\ y % 2 = 1 -> 2
      [] x % 2 = 1 /\ y % 2 = 1 -> 0

Field(byte, sh) == (byte \div Pow2(sh)) % 4

SetPixelValid ==
    /\ call.op = "set_pixel"
    /\ <<Arg(1), Arg(2)>> \in Valid

\* C3: after set_pixel(buf,x,y,c) on a valid (x,y), get_pixel(buf,x,y) is c and
\* get_pixel of every other pixel, the three other pixels of the same byte
\* included, is what it was before the call.
C3_SetGetRoundTrip ==
    SetPixelValid =>
        /\ get_pixel(buf, Arg(1), Arg(2)) = Arg(3)
        /\ \A x \in 0..(SCREEN_WIDTH - 1), y \in 0..(SCREEN_HEIGHT - 1) :
               <<x, y>> # <<Arg(1), Arg(2)>> => get_pixel(buf, x, y) = get_pixel(pre, x, y)

\* a set_pixel that changes its pixel, in a byte whose other pixels are not 0
C3_Witness ==
    /\ SetPixelValid
    /\ get_pixel(pre, Arg(1), Arg(2)) # Arg(3)
    /\ \A dx \in 0..1, dy \in 0..1 :
           LET qx == 2 * Shr(Arg(1), 1) + dx
               qy == 2 * Shr(Arg(2), 1) + dy
           IN  <<qx, qy>> # <<Arg(1), Arg(2)>> => get_pixel(pre, qx, qy) # 0

\* C4: after clear_screen(buf, c) every valid pixel reads c and every byte of
\* the buffer is c replicated into its four fields, c * 0x55.
C4_ClearFills ==
    call.op = "clear_screen" =>
        /\ \A p \in Valid : get_pixel(buf, p[1], p[2]) = Arg(1)
        /\ \A i \in Bytes : buf[i] = Arg(1) * 85
        /\ DOMAIN buf = Bytes

\* clear_screen with a color other than 0 over a buffer that was not uniform
C4_Witness ==
    /\ call.op = "clear_screen"
    /\ Arg(1) = 2
    /\ \E i, j \in Bytes : pre[i] # pre[j]

\* C5: with (x,y) off the screen set_pixel changes no byte and get_pixel
\* returns 0 whatever the buffer holds; neither makes an invalid access.
C5_OutOfBoundsIgnored ==
    /\ (call.op = "set_pixel" /\ <<Arg(1), Arg(2)>> \notin Valid)
           => buf = pre /\ ~ub
    /\ (call.op = "get_pixel" /\ <<Arg(1), Arg(2)>> \notin Valid)
           => ret = 0 /\ buf = pre /\ ~ub

\* get_pixel one column past the right edge, next to a pixel that is not 0
C5_Witness ==
    /\ call.op = "get_pixel"
    /\ Arg(1) = SCREEN_WIDTH
    /\ Arg(2) \in 0..(SCREEN_HEIGHT - 1)
    /\ get_pixel(buf, SCREEN_WIDTH - 1, Arg(2)) # 0

\* (x,y) -> (byte, bit position) maps the valid pixels one-to-one onto the
\* four fields of the SCREEN_SIZE bytes
LayoutBijective ==
    LET image == {<<ByteOf(p[1], p[2]), BitsOf(p[1], p[2])>> : p \in Valid}
    IN  /\ image = Bytes \X {0, 2, 4, 6}
        /\ Cardinality(Valid) = 4 * SCREEN_SIZE

\* C6: pixel (x,y) lives in byte (y>>1)*40 + (x>>1), bits 7-6 / 5-4 / 3-2 / 1-0
\* for top-left / top-right / bottom-left / bottom-right; set_pixel changes
\* only those two bits of that byte, get_pixel returns those two bits, and
\* the mapping is a bijection onto the 1000*4 fields.
C6_Layout ==
    /\ SetPixelValid =>
           LET i  == ByteOf(Arg(1), Arg(2))
               sh == BitsOf(Arg(1), Arg(2))
           IN  /\ \A j \in Bytes \ {i} : buf[j] = pre[j]
               /\ Field(buf[i], sh) = Arg(3)
               /\ \A o \in {0, 2, 4, 6} \ {sh} : Field(buf[i], o) = Field(pre[i], o)
    /\ (call.op = "get_pixel" /\ <<Arg(1), Arg(2)>> \in Valid) =>
           ret = Field(buf[ByteOf(Arg(1), Arg(2))], BitsOf(Arg(1), Arg(2)))
    /\ LayoutBijective

\* a set_pixel of a top-right pixel (x odd, y even) that changes bits 5-4
C6_Witness ==
    /\ SetPixelValid
    /\ Arg(1) % 2 = 1 /\ Arg(2) % 2 = 0
    /\ Field(buf[ByteOf(Arg(1), Arg(2))], 4) # Field(pre[ByteOf(Arg(1), Arg(2))], 4)
    /\ \A o \in {0, 2, 6} : Field(pre[ByteOf(Arg(1), Arg(2))], o) # 0

---------------------------------------------------------------------------
(* Properties of the SpanBlitter *)

\* for (x = xl; x < xr; x++) set_pixel(buf, x, y, color), from loop state st
RECURSIVE SetPixelsFrom(_, _, _, _)
SetPixelsFrom(st, y, xr, color) ==
    IF st.x >= xr THEN st.b
    ELSE SetPixelsFrom([b |-> set_pixel(st.b, st.x, y, color), x |-> st.x + 1],
                       y, xr, color)

SetPixels(b, y, xl, xr, color) == SetPixelsFrom([b |-> b, x |-> xl], y, xr, color)

\* C2: draw_dual_row_intervals(y, xl1, xr1, xl2, xr2, color), y even, endpoints
\* in 0..80, leaves exactly the buffer that set_pixel(x, y, color) for x in
\* [xl1, xr1) and set_pixel(x, y+1, color) for x in [xl2, xr2) leave.
C2_DualRowIsPerPixel ==
    call.op = "draw_dual_row_intervals" =>
        /\ buf = SetPixels(SetPixels(pre, Arg(1), Arg(2), Arg(3), Arg(6)),
                           Arg(1) + 1, Arg(4), Arg(5), Arg(6))
        /\ ~ub

\* two overlapping intervals, neither inside the other, with odd endpoints,
\* drawn over a buffer that held other colors
C2_Witness ==
    /\ call.op = "draw_dual_row_intervals"
    /\ Arg(2) < Arg(4) /\ Arg(4) < Arg(3) /\ Arg(3) < Arg(5)
    /\ Arg(2) % 2 = 1 /\ Arg(3) % 2 = 1
    /\ \E x \in Arg(2)..(Arg(3) - 1) : get_pixel(pre, x, Arg(1)) # Arg(6)
    /\ buf # pre

---------------------------------------------------------------------------
(* Properties of the TriangleRasterizer *)

\* reference_triangle of test.c: one pass of its scanline loop
RefScanline(b, v, dx_ac, y, color) ==
    LET x_ac_fp == Shl(v.ax, 8) + dx_ac * (y - v.ay) + Shr(dx_ac, 1)
        x_other_fp ==
            IF y < v.by
            THEN IF v.by # v.ay
                 THEN LET dx_ab == CDiv(Shl(v.bx - v.ax, 8), v.by - v.ay)
                      IN  Shl(v.ax, 8) + dx_ab * (y - v.ay) + Shr(dx_ab, 1)
                 ELSE Shl(v.ax, 8)
            ELSE IF v.cy # v.by
                 THEN LET dx_bc == CDiv(Shl(v.cx - v.bx, 8), v.cy - v.by)
                      IN  Shl(v.bx, 8) + dx_bc * (y - v.by) + Shr(dx_bc, 1)
                 ELSE Shl(v.bx, 8)
        xl == Shr(Min(x_ac_fp, x_other_fp), 8)
        xr == Shr(Max(x_ac_fp, x_other_fp), 8)
    IN  SetPixels(b, y, xl, xr, color)

RECURSIVE RefScanlines(_, _, _, _)
RefScanlines(st, v, dx_ac, color) ==
    IF st.y >= v.cy THEN st.b
    ELSE RefScanlines([b |-> RefScanline(st.b, v, dx_ac, st.y, color), y |-> st.y + 1],
                      v, dx_ac, color)

reference_triangle(b, ax, ay, bx, by, cx, cy, color) ==
    LET det == (bx - ax) * (cy - ay) - (by - ay) * (cx - ax)
        s0  == <<ax, ay, bx, by, cx, cy>>
        s1  == IF s0[2] > s0[4] THEN <<s0[3], s0[4], s0[1], s0[2], s0[5], s0[6]>> ELSE s0
        s2  == IF s1[4] > s1[6] THEN <<s1[1], s1[2], s1[5], s1[6], s1[3], s1[4]>> ELSE s1
        s3  == IF s2[2] > s2[4] THEN <<s2[3], s2[4], s2[1], s2[2], s2[5], s2[6]>> ELSE s2
        v   == [ax |-> s3[1], ay |-> s3[2], bx |-> s3[3], by |-> s3[4],
                cx |-> s3[5], cy |-> s3[6]]
    IN  IF det < 0 THEN b
        ELSE IF v.ay = v.cy THEN b
        ELSE RefScanlines([b |-> b, y |-> v.ay], v,
                          CDiv(Shl(v.cx - v.ax, 8), v.cy - v.ay), color)

OnScreen(x, y) == x \in 0..(SCREEN_WIDTH - 1) /\ y \in 0..(SCREEN_HEIGHT - 1)

TriangleOnScreen ==
    /\ call.op = "draw_triangle"
    /\ OnScreen(Arg(1), Arg(2)) /\ OnScreen(Arg(3), Arg(4)) /\ OnScreen(Arg(5), Arg(6))

\* C1: for every triangle with its three vertices on the screen and every
\* color, draw_triangle and the reference rasterizer, started from the same
\* buffer, leave buffers in which get_pixel agrees at every (x,y).
C1_MatchesReference ==
    TriangleOnScreen =>
        LET expected == reference_triangle(pre, Arg(1), Arg(2), Arg(3), Arg(4),
                                           Arg(5), Arg(6), Arg(7))
        IN  /\ ~ub
            /\ \/ buf = expected    \* equal bytes read equal at every pixel
               \/ \A x \in 0..(SCREEN_WIDTH - 1), y \in 0..(SCREEN_HEIGHT - 1) :
                      get_pixel(buf, x, y) = get_pixel(expected, x, y)

\* a triangle with a top and a bottom trapezoid, drawn with dual-row and
\* single-row calls over a buffer that held other colors
C1_Witness ==
    /\ TriangleOnScreen
    /\ buf # pre
    /\ \E i, j, k, l \in 1..Len(steps) :
           /\ steps[i].part = "top" /\ steps[j].part = "bottom"
           /\ steps[k].kind = "dual" /\ steps[l].kind # "dual"
    /\ \E i \in Bytes : pre[i] # 0

\* C7: draw_triangle changes no byte and returns normally when the signed area
\* of the vertices as passed is negative or the three vertices share one y,
\* wherever the vertices lie and whatever the buffer held.
C7_CulledUntouched ==
    (/\ call.op = "draw_triangle"
     /\ \/ Det(Arg(1), Arg(2), Arg(3), Arg(4), Arg(5), Arg(6)) < 0
        \/ (Arg(2) = Arg(4) /\ Arg(4) = Arg(6)))
    => buf = pre /\ ~ub /\ steps = <<>>

\* a clockwise triangle with a vertex above and left of the screen and one
\* right of it, over a buffer that was not cleared
C7_Witness ==
    /\ call.op = "draw_triangle"
    /\ Det(Arg(1), Arg(2), Arg(3), Arg(4), Arg(5), Arg(6)) < 0
    /\ ~(Arg(2) = Arg(4) /\ Arg(4) = Arg(6))
    /\ \E k \in {1, 3, 5} : Arg(k) < 0 /\ Arg(k + 1) < 0
    /\ \E k \in {1, 3, 5} : Arg(k) >= SCREEN_WIDTH
    /\ \E i \in Bytes : pre[i] # 0

---------------------------------------------------------------------------
(* Properties of the MeshTransform *)
IsRender == call.op = "render_mesh"

Vertices(m) == 0..(Len(m.x) - 1)
Faces(m) == 1..Len(m.i)

\* every vertex passes the world_z > 0 test of transform_mesh
AllInFront(m) == \A v \in Vertices(m) : WorldOf(m, v).world_z > 0

\* C8: when some vertex of the mesh, at any index and used by a face or not,
\* has world_z <= 0, render_mesh makes no draw_triangle call and leaves every
\* byte of the buffer as it was.
C8_BehindCameraDrawsNothing ==
    (IsRender /\ ~AllInFront(Arg(1)))
        => (log = <<>> /\ buf = pre /\ ~ub)

\* the vertex behind the camera is the last one, no face uses it, and every
\* vertex and face before it is in front
C8_Witness ==
    /\ IsRender
    /\ LET m == Arg(1)
           v == Len(m.x) - 1
       IN  /\ WorldOf(m, v).world_z <= 0
           /\ \A u \in 0..(v - 1) : WorldOf(m, u).world_z > 0
           /\ \A f \in Faces(m) : v \notin {m.i[f], m.j[f], m.k[f]}
    /\ buf = pre
    /\ \E n \in Bytes : buf[n] # 0

\* the draw_triangle call of face f: the projected coordinates of its three
\* vertices in the order i, j, k, and col[f]
FaceCall(m, t, f) ==
    <<t.screen_x[m.i[f] + 1], t.screen_y[m.i[f] + 1],
      t.screen_x[m.j[f] + 1], t.screen_y[m.j[f] + 1],
      t.screen_x[m.k[f] + 1], t.screen_y[m.k[f] + 1], m.col[f]>>

RECURSIVE DrawCalls(_, _)
DrawCalls(st, calls) ==
    IF st.f > Len(calls) THEN st.m
    ELSE LET a == calls[st.f]
         IN  DrawCalls([m |-> draw_triangle(st.m, a[1], a[2], a[3], a[4], a[5],
                                            a[6], a[7]).m,
                        f |-> st.f + 1], calls)

\* what each call covers: the call made with color 3 on a buffer of zeros
RECURSIVE CoverFrom(_, _)
CoverFrom(st, calls) ==
    IF st.f > Len(calls) THEN st.cov
    ELSE LET a == calls[st.f]
         IN  CoverFrom([cov |-> Append(st.cov,
                                   draw_triangle(Mem(clear_screen(0), FALSE), a[1],
                                       a[2], a[3], a[4], a[5], a[6], 3).m.b),
                        f |-> st.f + 1], calls)

Cover(calls) == CoverFrom([cov |-> <<>>, f |-> 1], calls)

PixelShifts == {PIXEL_TL_SHIFT, PIXEL_TR_SHIFT, PIXEL_BL_SHIFT, PIXEL_BR_SHIFT}

\* every pixel some call covers has the color of the last call covering it,
\* every other pixel is as before
LastCallWins(calls, cov) ==
    \A n \in Bytes :
        IF \A f \in 1..Len(calls) : cov[f][n] = 0 THEN buf[n] = pre[n]
        ELSE \A sh \in PixelShifts :
                LET on == {f \in 1..Len(calls) : Field(cov[f][n], sh) = 3}
                IN  IF on = {} THEN Field(buf[n], sh) = Field(pre[n], sh)
                    ELSE Field(buf[n], sh) =
                             calls[CHOOSE f \in on : \A g \in on : g <= f][7]

\* C9: when every vertex passes the world_z > 0 test, render_mesh calls
\* draw_triangle once per face, in increasing face index, with the projected
\* coordinates of vertices i[f], j[f], k[f] in that order and color col[f];
\* the buffer is the result of those calls, so where non-culled faces cover
\* the same pixel the color of the higher-indexed face remains.
C9_FacesInOrder ==
    (IsRender /\ AllInFront(Arg(1)))
        => LET m     == Arg(1)
               t     == transform_mesh(m)
               calls == [f \in Faces(m) |-> FaceCall(m, t, f)]
               end   == DrawCalls([m |-> Mem(pre, FALSE), f |-> 1], calls)
           IN  /\ t.ret = 0
               /\ log = calls
               /\ buf = end.b
               /\ ub = end.ub
               /\ LastCallWins(calls, Cover(calls))

\* a mesh on screen with a culled face and two drawn faces of different
\* colors over the same pixel
C9_Witness ==
    /\ IsRender
    /\ AllInFront(Arg(1))
    /\ ~ub
    /\ buf # pre
    /\ \E f \in 1..Len(log) :
          Det(log[f][1], log[f][2], log[f][3], log[f][4], log[f][5], log[f][6]) < 0
    /\ LET cov == Cover(log)
       IN  \E n \in Bytes : \E f, g \in 1..Len(log) :
              /\ f < g
              /\ log[f][7] # log[g][7]
              /\ Field(cov[f][n], PIXEL_TL_SHIFT) = 3
              /\ Field(cov[g][n], PIXEL_TL_SHIFT) = 3
              /\ Field(buf[n], PIXEL_TL_SHIFT) = log[g][7]

\* the projection of vertex v in exact integer arithmetic
ExactScreen(m, v) ==
    LET c  == rcos(m.theta)
        s  == rsin(m.theta)
        lx == m.x[v + 1]
        ly == m.y[v + 1]
        lz == m.z[v + 1]
        world_x == Shr(c * lx + s * lz, 7) + m.px
        world_z == Shr((-s) * lx + c * lz, 7) + m.pz
        world_y == ly + m.py
    IN  <<40 + CDiv(Shl(world_x, 8), world_z), 25 - CDiv(Shl(world_y, 8), world_z)>>

\* C10: when every vertex passes the world_z > 0 test, the coordinates passed
\* to draw_triangle are exactly 40 + trunc(256 * world_x / world_z) and
\* 25 - trunc(256 * world_y / world_z), with world_x, world_y, world_z the
\* rotated local coordinates plus px, py, pz, nothing wrapping at 16 bits.
C10_ExactProjection ==
    (IsRender /\ AllInFront(Arg(1)))
        => LET m == Arg(1)
           IN  /\ Len(log) = Len(m.i)
               /\ \A f \in Faces(m) :
                     /\ <<log[f][1], log[f][2]>> = ExactScreen(m, m.i[f])
                     /\ <<log[f][3], log[f][4]>> = ExactScreen(m, m.j[f])
                     /\ <<log[f][5], log[f][6]>> = ExactScreen(m, m.k[f])

---------------------------------------------------------------------------
(* Triangles with vertices off the screen *)
OutsideScreen(x, y) == x < 0 \/ x > SCREEN_WIDTH \/ y < 0 \/ y > SCREEN_HEIGHT

TriangleOffScreen ==
    /\ call.op = "draw_triangle"
    /\ \/ OutsideScreen(Arg(1), Arg(2))
       \/ OutsideScreen(Arg(3), Arg(4))
       \/ OutsideScreen(Arg(5), Arg(6))

\* C11: for a triangle with a vertex outside the screen, draw_triangle leaves
\* every on-screen pixel as the reference rasterizer leaves it (the reference
\* drops off-screen pixels in set_pixel) and makes no access outside the
\* 1000 bytes of the buffer.
C11_OffScreenClipped ==
    TriangleOffScreen =>
        LET expected == reference_triangle(pre, Arg(1), Arg(2), Arg(3), Arg(4),
                                           Arg(5), Arg(6), Arg(7))
        IN  ~ub /\ buf = expected


---------------------------------------------------------------------------
(* The y-sort of draw_triangle *)
IsTriangle == call.op = "draw_triangle"

\* the vertices of the call as passed, and after each of the three swaps
Passed ==
    [ax |-> Arg(1), ay |-> Arg(2), bx |-> Arg(3), by |-> Arg(4),
     cx |-> Arg(5), cy |-> Arg(6), swaps |-> 0]

Sorted == SortVertices(Arg(1), Arg(2), Arg(3), Arg(4), Arg(5), Arg(6))

Points(v) == <<<<v.ax, v.ay>>, <<v.bx, v.by>>, <<v.cx, v.cy>>>>

IsPermutation(p, q) ==
    \E f \in [1..3 -> 1..3] :
        /\ \A i, j \in 1..3 : i # j => f[i] # f[j]
        /\ \A i \in 1..3 : p[i] = q[f[i]]

\* how many of the three stages exchanged two vertices
SwapsPerformed ==
    LET s1 == SwapAB(Passed)
        s2 == SwapBC(s1)
        s3 == SwapAB(s2)
        moved(u, w) == IF Points(u) # Points(w) THEN 1 ELSE 0
    IN  moved(Passed, s1) + moved(s1, s2) + moved(s2, s3)

\* C12: after the swaps (A,B), (B,C), (A,B) the vertices have ay <= by <= cy,
\* the three (x,y) pairs are a permutation of the pairs passed, and the swap
\* counter is the number of swaps performed, between 0 and 3.
C12_SortPostcondition ==
    IsTriangle =>
        /\ Sorted.ay <= Sorted.by /\ Sorted.by <= Sorted.cy
        /\ IsPermutation(Points(Sorted), Points(Passed))
        /\ Sorted.swaps = SwapsPerformed
        /\ Sorted.swaps \in 0..3

\* a drawn triangle passed bottom vertex first, top vertex last: three swaps
C12_Witness ==
    /\ IsTriangle
    /\ Arg(2) > Arg(4) /\ Arg(4) > Arg(6)
    /\ Sorted.swaps = 3
    /\ Points(Sorted) # Points(Passed)
    /\ steps # <<>>


PassedDet == Det(Arg(1), Arg(2), Arg(3), Arg(4), Arg(5), Arg(6))
SortedDet == Det(Sorted.ax, Sorted.ay, Sorted.bx, Sorted.by, Sorted.cx, Sorted.cy)

\* C13: for a triangle with det > 0 as passed and non-zero height, b_on_left
\* = swaps & 1 is 1 exactly when the cross product recomputed on the sorted
\* vertices is negative, i.e. the sorted B lies strictly left of the line AC.
C13_ParityIsSide ==
    (IsTriangle /\ PassedDet > 0 /\ Sorted.ay # Sorted.cy)
        => (SwapParity(Sorted.swaps) = 1 <=> SortedDet < 0)

\* a drawn triangle sorted with one swap, its middle vertex left of AC, and
\* the short edge giving the left end of some non-empty span
C13_Witness ==
    /\ IsTriangle
    /\ PassedDet > 0
    /\ Sorted.swaps = 1
    /\ SortedDet < 0
    /\ \E i \in 1..Len(steps) :
          /\ steps[i].xl < steps[i].xr
          /\ steps[i].xl = Shr(steps[i].x_short, FP_SHIFT)
          /\ steps[i].xr = Shr(steps[i].x_long, FP_SHIFT)


---------------------------------------------------------------------------
(* The edge accumulators *)
\* the slopes of the sorted edges, where the edge has height
SlopeAC == CDiv(Shl(Sorted.cx - Sorted.ax, 8), Sorted.cy - Sorted.ay)
SlopeAB == CDiv(Shl(Sorted.bx - Sorted.ax, 8), Sorted.by - Sorted.ay)
SlopeBC == CDiv(Shl(Sorted.cx - Sorted.bx, 8), Sorted.cy - Sorted.by)

\* the closed forms of the claim at scanline y
LongAt(y) == Shl(Sorted.ax, 8) + Shr(SlopeAC, 1) + SlopeAC * (y - Sorted.ay)

ShortAt(part, y) ==
    IF part = "top"
    THEN Shl(Sorted.ax, 8) + Shr(SlopeAB, 1) + SlopeAB * (y - Sorted.ay)
    ELSE Shl(Sorted.bx, 8) + Shr(SlopeBC, 1) + SlopeBC * (y - Sorted.by)

\* C14: whenever draw_triangle reads the edge positions for a scanline y, in
\* a single-row or a dual-row step, x_long is (ax<<8) + (dx_ac>>1) +
\* dx_ac*(y-ay) on the sorted vertices, also across the start of the bottom
\* trapezoid, and x_short is (ax<<8) + (dx_ab>>1) + dx_ab*(y-ay) in the top
\* trapezoid and (bx<<8) + (dx_bc>>1) + dx_bc*(y-by) in the bottom one.
C14_AccumulatorsClosedForm ==
    IsTriangle =>
        \A i \in 1..Len(steps) :
            LET r == steps[i]
            IN  /\ r.x_long = LongAt(r.y)
                /\ r.x_short = ShortAt(r.part, r.y)
                /\ r.kind = "dual" =>
                      LET p == Shr(LongAt(r.y + 1), FP_SHIFT)
                          q == Shr(ShortAt(r.part, r.y + 1), FP_SHIFT)
                      IN  r.xl2 = Min(p, q) /\ r.xr2 = Max(p, q)

\* a triangle with both trapezoids whose bottom one starts with x_long moved
\* away from its initial value and holds a dual-row step
C14_Witness ==
    /\ IsTriangle
    /\ \E i, j \in 1..Len(steps) :
          /\ steps[i].part = "top" /\ steps[i].kind = "dual"
          /\ steps[j].part = "bottom" /\ steps[j].kind = "dual"
          /\ steps[j].x_long # steps[1].x_long
          /\ steps[j].x_long = LongAt(steps[j].y)
    /\ SlopeAC % 2 = 1


---------------------------------------------------------------------------
(* The scanline counter *)
Drawn == IsTriangle /\ PassedDet >= 0 /\ Sorted.ay # Sorted.cy

\* the scanlines a blitter call fills, and the counter after it
RowsOf(r) == IF r.kind = "dual" THEN {r.y, r.y + 1} ELSE {r.y}
AfterStep(r) == IF r.kind = "dual" THEN r.y + 2 ELSE r.y + 1
PartEnd(r) == IF r.part = "top" THEN Sorted.by ELSE Sorted.cy

\* C15: for a non-culled triangle of non-zero height the scanline counter
\* starts at ay, strictly increases, leaves the top loop at by and the bottom
\* loop at cy exactly; every scanline of [ay, cy) goes to exactly one blitter
\* call; a dual-row call has an even y with y+1 below the end of its own
\* trapezoid; an even last row of a trapezoid goes to draw_span_top and every
\* odd y reached goes to draw_span_bottom.
C15_ScanlineCounter ==
    Drawn =>
        LET n == Len(steps)
        IN  /\ n > 0
            /\ steps[1].y = Sorted.ay
            /\ AfterStep(steps[n]) = Sorted.cy
            /\ \A i \in 1..(n - 1) :
                  /\ steps[i + 1].y = AfterStep(steps[i])
                  /\ steps[i].part = "bottom" => steps[i + 1].part = "bottom"
                  /\ steps[i].part # steps[i + 1].part => AfterStep(steps[i]) = Sorted.by
            /\ steps[1].part = "bottom" => Sorted.ay = Sorted.by
            /\ steps[n].part = "top" => Sorted.by = Sorted.cy
            /\ \A y \in Sorted.ay..(Sorted.cy - 1) :
                  Cardinality({i \in 1..n : y \in RowsOf(steps[i])}) = 1
            /\ \A i \in 1..n :
                  LET r == steps[i]
                  IN  /\ RowsOf(r) \subseteq Sorted.ay..(Sorted.cy - 1)
                      /\ r.kind = "dual" => r.y % 2 = 0 /\ r.y + 1 < PartEnd(r)
                      /\ r.kind = "top" => r.y % 2 = 0 /\ r.y + 1 = PartEnd(r)
                      /\ r.kind = "bottom" <=> r.y % 2 = 1

\* the top trapezoid ends on an even row drawn alone and the bottom one
\* starts on the odd row after it; dual-row steps occur in both
C15_Witness ==
    /\ Drawn
    /\ \E i \in 1..(Len(steps) - 1) :
          /\ steps[i].part = "top" /\ steps[i].kind = "top"
          /\ steps[i + 1].part = "bottom" /\ steps[i + 1].kind = "bottom"
    /\ \E i, j \in 1..Len(steps) :
          /\ steps[i].part = "top" /\ steps[i].kind = "dual"
          /\ steps[j].part = "bottom" /\ steps[j].kind = "dual"


---------------------------------------------------------------------------
(* Frame effects of the span blitters *)
IsSpan == call.op \in {"draw_span_top", "draw_span_bottom", "draw_dual_row_simple"}

\* the scanlines the call fills
SpanScanlines ==
    IF call.op = "draw_dual_row_simple" THEN {Arg(1), Arg(1) + 1} ELSE {Arg(1)}

\* C16: with endpoints in 0..80, on any buffer content, draw_span_top (y
\* even) and draw_span_bottom (y odd) set the pixels (x,y), xl <= x < xr, to
\* color, draw_dual_row_simple (y even) sets (x,y) and (x,y+1), xl <= x < xr,
\* and each leaves every other pixel as it was: the other scanline of the
\* same bytes, the neighbour in a partly covered byte, and everything when
\* xl >= xr.
C16_SpanFrame ==
    IsSpan =>
        LET y  == Arg(1)
            xl == Arg(2)
            xr == Arg(3)
            cy == Shr(y, 1)
        IN  /\ ~ub
            /\ \A n \in Bytes : n \div CHAR_WIDTH # cy => buf[n] = pre[n]
            /\ \A x \in 0..(SCREEN_WIDTH - 1), yy \in {2 * cy, 2 * cy + 1} :
                  get_pixel(buf, x, yy) =
                      IF yy \in SpanScanlines /\ xl <= x /\ x < xr
                      THEN Arg(4)
                      ELSE get_pixel(pre, x, yy)
            /\ xl >= xr => buf = pre

\* a bottom span with odd ends over a buffer whose pixels above it and beside
\* it held other colors, which are still there
C16_Witness ==
    /\ call.op = "draw_span_bottom"
    /\ Arg(2) % 2 = 1 /\ Arg(3) % 2 = 1 /\ Arg(2) + 2 < Arg(3)
    /\ get_pixel(pre, Arg(2) - 1, Arg(1)) # Arg(4)
    /\ get_pixel(buf, Arg(2) - 1, Arg(1)) = get_pixel(pre, Arg(2) - 1, Arg(1))
    /\ get_pixel(pre, Arg(2) + 1, Arg(1) - 1) # Arg(4)
    /\ get_pixel(buf, Arg(2) + 1, Arg(1) - 1) = get_pixel(pre, Arg(2) + 1, Arg(1) - 1)
    /\ get_pixel(pre, Arg(2), Arg(1)) # Arg(4)
    /\ get_pixel(buf, Arg(2), Arg(1)) = Arg(4)


---------------------------------------------------------------------------
(* The decomposition made by draw_dual_row_intervals *)
\* the pixels a primitive call fills
CallPixels(c) ==
    {<<x, r>> : x \in c.xl..(c.xr - 1),
                r \in IF c.prim = "simple" THEN {c.y, c.y + 1} ELSE {c.y}}

Interval(a, b) == a..(b - 1)

\* C17: for two non-empty intervals draw_dual_row_intervals makes at most
\* three primitive calls after two or three endpoint comparisons:
\* draw_dual_row_simple on the intersection [max(xl1,xl2), min(xr1,xr2)), the
\* top primitive on row y for what only the first interval holds, the bottom
\* primitive on row y+1 for what only the second holds; the pixel sets of the
\* calls are pairwise disjoint and a gap between the intervals is not written.
C17_Decomposition ==
    (/\ call.op = "draw_dual_row_intervals"
     /\ Arg(2) < Arg(3) /\ Arg(4) < Arg(5))
    => LET y     == Arg(1)
           plan  == DualRowPlan(y, Arg(2), Arg(3), Arg(4), Arg(5))
           calls == plan.calls
           n     == Len(calls)
           of(p) == UNION {CallPixels(calls[i]) : i \in {k \in 1..n : calls[k].prim = p}}
           first  == Interval(Arg(2), Arg(3))
           second == Interval(Arg(4), Arg(5))
           lo    == Max(Arg(2), Arg(4))
           hi    == Min(Arg(3), Arg(5))
       IN  /\ n <= 3
           /\ plan.compared \in {2, 3}
           /\ of("simple") = (first \cap second) \X {y, y + 1}
           /\ \A i \in 1..n :
                 calls[i].prim = "simple" /\ lo < hi
                     => calls[i].xl = lo /\ calls[i].xr = hi /\ calls[i].y = y
           /\ of("top") = (first \ second) \X {y}
           /\ of("bottom") = (second \ first) \X {y + 1}
           /\ \A i, j \in 1..n :
                 i # j => CallPixels(calls[i]) \cap CallPixels(calls[j]) = {}
           /\ buf = ApplyCalls([m |-> Mem(pre, FALSE), n |-> 1], calls, Arg(6)).b

\* overlapping intervals, neither inside the other: three calls, one of each
\* primitive, after three comparisons
C17_Witness ==
    /\ call.op = "draw_dual_row_intervals"
    /\ Arg(4) < Arg(2) /\ Arg(2) < Arg(5) /\ Arg(5) < Arg(3)
    /\ LET plan == DualRowPlan(Arg(1), Arg(2), Arg(3), Arg(4), Arg(5))
       IN  /\ plan.compared = 3
           /\ {plan.calls[i].prim : i \in 1..Len(plan.calls)} = {"top", "bottom", "simple"}
           /\ \A i \in 1..Len(plan.calls) : CallPixels(plan.calls[i]) # {}
    /\ buf # pre


---------------------------------------------------------------------------
(* Collinear vertices *)
\* C18: a triangle with det = 0 whose vertices are not all on one scanline
\* passes the culling and the height test and draws nothing: on every
\* scanline both edge positions shift to the same x, every span is empty and
\* the buffer is unchanged.
C18_CollinearDrawsNothing ==
    (IsTriangle /\ PassedDet = 0 /\ Sorted.ay # Sorted.cy)
        => /\ steps # <<>>
           /\ \A i \in 1..Len(steps) :
                 steps[i].xl = steps[i].xr /\ steps[i].xl2 = steps[i].xr2
           /\ buf = pre


---------------------------------------------------------------------------
(* Word size of the values of draw_triangle *)
Int16 == (-32768)..32767

\* the values computed before the loops
SetupValues ==
    {(Arg(3) - Arg(1)) * (Arg(6) - Arg(2)), (Arg(4) - Arg(2)) * (Arg(5) - Arg(1)),
     PassedDet}
    \cup (IF PassedDet < 0 \/ Sorted.ay = Sorted.cy THEN {}
          ELSE {Shl(Sorted.cx - Sorted.ax, 8), SlopeAC, Shr(SlopeAC, 1),
                Shl(Sorted.ax, 8), Shl(Sorted.ax, 8) + Shr(SlopeAC, 1)}
               \cup (IF Sorted.ay < Sorted.by
                     THEN {Shl(Sorted.bx - Sorted.ax, 8), SlopeAB, Shr(SlopeAB, 1),
                           Shl(Sorted.ax, 8) + Shr(SlopeAB, 1)}
                     ELSE {})
               \cup (IF Sorted.by < Sorted.cy
                     THEN {Shl(Sorted.cx - Sorted.bx, 8), SlopeBC, Shr(SlopeBC, 1),
                           Shl(Sorted.bx, 8), Shl(Sorted.bx, 8) + Shr(SlopeBC, 1)}
                     ELSE {}))

\* the values computed in the loop pass recorded as r, the advanced
\* accumulators included
StepValues(r) ==
    LET dx_short == IF r.part = "top" THEN SlopeAB ELSE SlopeBC
    IN  {r.x_long, r.x_short, r.xl, r.xr, r.x_long + SlopeAC, r.x_short + dx_short}
        \cup (IF r.kind = "dual"
              THEN {r.xl2, r.xr2, Shl(SlopeAC, 1), Shl(dx_short, 1),
                    r.x_long + Shl(SlopeAC, 1), r.x_short + Shl(dx_short, 1)}
              ELSE {})

\* C19: for vertices with x in 0..79 and y in 0..49 every integer that
\* draw_triangle computes is in -32768..32767: the determinant (at most 7742
\* in magnitude), the slopes dx_ac, dx_ab, dx_bc, their halves and their
\* doubles where used, and x_long and x_short up to and including the values
\* left by the last advance of each loop.
C19_FitsInt16 ==
    TriangleOnScreen =>
        /\ SetupValues \subseteq Int16
        /\ PassedDet \in (-7742)..7742
        /\ \A i \in 1..Len(steps) : StepValues(steps[i]) \subseteq Int16

\* the steepest long edge, one scanline high: the slope is 79 * 256 and the
\* accumulator ends at one and a half times that
C19_Witness ==
    /\ TriangleOnScreen
    /\ Len(steps) = 1
    /\ SlopeAC = Shl(SCREEN_WIDTH - 1, 8)
    /\ steps[1].x_long + SlopeAC = 30336


---------------------------------------------------------------------------
(* Range of the rotated coordinates *)
IsTransform == call.op = "transform_mesh"

\* rot_x and rot_z of every vertex of the mesh transformed
Rotated == UNION {{WorldOf(Arg(1), v).rot_x, WorldOf(Arg(1), v).rot_z} : v \in Vertices(Arg(1))}

---------------------------------------------------------------------------
(* The bounding box of draw_triangle *)
InBox(x, y) == x \in 0..SCREEN_WIDTH /\ y \in 0..SCREEN_HEIGHT

TriangleInBox ==
    /\ IsTriangle
    /\ InBox(Arg(1), Arg(2)) /\ InBox(Arg(3), Arg(4)) /\ InBox(Arg(5), Arg(6))

\* the columns and scanlines from the least to one before the greatest vertex
BoxXs == Min(Arg(1), Min(Arg(3), Arg(5)))..(Max(Arg(1), Max(Arg(3), Arg(5))) - 1)
BoxYs == Min(Arg(2), Min(Arg(4), Arg(6)))..(Max(Arg(2), Max(Arg(4), Arg(6))) - 1)

\* the pixels the blitter call of loop pass r is asked to fill
Painted(r) ==
    {<<x, r.y>> : x \in r.xl..(r.xr - 1)}
        \cup (IF r.kind = "dual" THEN {<<x, r.y + 1>> : x \in r.xl2..(r.xr2 - 1)}
              ELSE {})

Changed(x, y) == get_pixel(buf, x, y) # get_pixel(pre, x, y)

\* the four pixels that byte n of the buffer holds
PixelsOf(n) ==
    {<<2 * (n % CHAR_WIDTH) + i, 2 * (n \div CHAR_WIDTH) + j>> : i \in 0..1, j \in 0..1}

\* C21: for vertices with x in 0..80 and y in 0..50, every pixel draw_triangle
\* asks a blitter to fill and every pixel whose value it changes lies in
\* [min x, max x) by [min y, max y) of the vertices, every changed pixel ends
\* with the given color, and no access leaves the 1000 bytes; so the right-most
\* column and the bottom scanline of the bounding box are never painted.
C21_InsideBoundingBox ==
    TriangleInBox =>
        /\ ~ub
        /\ \A i \in 1..Len(steps) : \A p \in Painted(steps[i]) :
               p[1] \in BoxXs /\ p[2] \in BoxYs
        /\ \/ buf = pre
           \/ \A n \in Bytes :
                  \/ buf[n] = pre[n]
                  \/ \A p \in PixelsOf(n) :
                         Changed(p[1], p[2]) =>
                             /\ p[1] \in BoxXs /\ p[2] \in BoxYs
                             /\ get_pixel(buf, p[1], p[2]) = Arg(7)

\* a drawn triangle with a vertex on column 80 and a vertex on scanline 50
\* that changes a pixel of column 79 and a pixel of scanline 49, over a buffer
\* that was not cleared
C21_Witness ==
    /\ TriangleInBox
    /\ \E k \in {1, 3, 5} : Arg(k) = SCREEN_WIDTH
    /\ \E k \in {2, 4, 6} : Arg(k) = SCREEN_HEIGHT
    /\ \E y \in 0..(SCREEN_HEIGHT - 1) : Changed(SCREEN_WIDTH - 1, y)
    /\ \E x \in 0..(SCREEN_WIDTH - 1) : Changed(x, SCREEN_HEIGHT - 1)
    /\ \E i \in Bytes : pre[i] # 0

---------------------------------------------------------------------------
(* The order of the vertex arguments of draw_triangle *)

\* draw_triangle on the buffer the call started from, with the color of the
\* call and the vertices given
Redraw(ax, ay, bx, by, cx, cy) ==
    draw_triangle(Mem(pre, FALSE), ax, ay, bx, by, cx, cy, Arg(7))

Culled(ax, ay, bx, by, cx, cy) == Redraw(ax, ay, bx, by, cx, cy).end = "culled"

\* C22: for on-screen vertices A, B, C the calls (A,B,C), (B,C,A) and (C,A,B)
\* on the same buffer leave identical buffers, also when two vertices share a
\* y and the sort picks another long edge; and when det # 0 exactly one of
\* (A,B,C) and (A,C,B) is culled.
C22_RotationInvariant ==
    TriangleOnScreen =>
        LET bca == Redraw(Arg(3), Arg(4), Arg(5), Arg(6), Arg(1), Arg(2))
            cab == Redraw(Arg(5), Arg(6), Arg(1), Arg(2), Arg(3), Arg(4))
            det == (Arg(3) - Arg(1)) * (Arg(6) - Arg(2))
                       - (Arg(4) - Arg(2)) * (Arg(5) - Arg(1))
        IN  /\ bca.m.b = buf /\ bca.m.ub = ub
            /\ cab.m.b = buf /\ cab.m.ub = ub
            /\ det # 0 =>
                   (Culled(Arg(1), Arg(2), Arg(3), Arg(4), Arg(5), Arg(6))
                        # Culled(Arg(1), Arg(2), Arg(5), Arg(6), Arg(3), Arg(4)))

\* a triangle that changes the buffer, with two vertices on one scanline, whose
\* rotation (B,C,A) makes the sort pick another vertex as the start of the
\* long edge or another as its end
C22_Witness ==
    /\ TriangleOnScreen
    /\ buf # pre
    /\ Sorted.ay = Sorted.by \/ Sorted.by = Sorted.cy
    /\ LET r == SortVertices(Arg(3), Arg(4), Arg(5), Arg(6), Arg(1), Arg(2))
       IN  <<r.ax, r.ay, r.cx, r.cy>> # <<Sorted.ax, Sorted.ay, Sorted.cx, Sorted.cy>>
    /\ \E i \in Bytes : pre[i] # 0

---------------------------------------------------------------------------
(* b_on_left *)

\* draw_triangle with b_on_left set to b instead of swaps & 1, on the buffer
\* and with the arguments of the call
Forced(b) ==
    IF PassedDet < 0 \/ Sorted.ay = Sorted.cy
    THEN [m |-> Mem(pre, FALSE), steps |-> <<>>]
    ELSE ScanConvertWith(Mem(pre, FALSE), Sorted, Arg(7), b)

\* the two edge positions of loop pass r after the shift by 8, on its first
\* scanline and, in a dual-row pass, on its second
EdgeColumns(r) ==
    <<Shr(r.x_long, FP_SHIFT), Shr(r.x_short, FP_SHIFT)>>

NextEdgeColumns(r) ==
    <<Shr(r.x_long + SlopeAC, FP_SHIFT),
      Shr(r.x_short + (IF r.part = "top" THEN SlopeAB ELSE SlopeBC), FP_SHIFT)>>

\* C23: what draw_triangle draws does not depend on b_on_left: with b_on_left
\* forced to 0 and forced to 1 it makes the same blitter calls and leaves the
\* same buffer as the original, for every triangle; the interval of each
\* scanline is [min, max) of the two edge positions after the shift by 8.
C23_SideFlagIrrelevant ==
    IsTriangle =>
        /\ \A b \in {0, 1} :
               LET f == Forced(b)
               IN  f.m.b = buf /\ f.m.ub = ub /\ f.steps = steps
        /\ \A i \in 1..Len(steps) :
               LET r == steps[i]
                   e == EdgeColumns(r)
                   n == NextEdgeColumns(r)
               IN  /\ r.xl = Min(e[1], e[2]) /\ r.xr = Max(e[1], e[2])
                   /\ r.kind = "dual" =>
                          r.xl2 = Min(n[1], n[2]) /\ r.xr2 = Max(n[1], n[2])

\* a triangle that changes the buffer, with b_on_left = 1 and a scanline where
\* the long edge is right of the short one, so that b_on_left = 0 gives the
\* two ends in the other order, over a buffer that was not cleared
C23_Witness ==
    /\ Drawn
    /\ buf # pre
    /\ SwapParity(Sorted.swaps) = 1
    /\ \E i \in 1..Len(steps) :
           EdgeColumns(steps[i])[1] > EdgeColumns(steps[i])[2]
    /\ \E i \in 1..Len(steps) : steps[i].xl < steps[i].xr
    /\ \E i \in Bytes : pre[i] # 0

===========================================================================
